---- MODULE Spec2Model ----
(***************************************************************************)
(* A model of the CDN resolver plugin of esbuild-wasm-treeshake-repro:     *)
(* the Fetch Cache (src/fetch-and-cache.ts), the extension prober, the     *)
(* resolve/load handlers (src/esbuild.ts) and the CDN helpers              *)
(* (src/utils.ts).                                                         *)
(*                                                                         *)
(* Strings are sequences of tokens.  The tokens "/", "@", ".", ":" stand   *)
(* for themselves; every other token is a word, a non-empty run of         *)
(* characters none of which is one of those four.  Every regular           *)
(* expression and path operation of the code inspects only these four      *)
(* characters and whole words, so it is computed on tokens exactly as the  *)
(* code computes it on characters.                                         *)
(*                                                                         *)
(* Scheduling: JavaScript runs one handler at a time.  An action is the    *)
(* code that runs from one network event (a call arriving from the         *)
(* bundler, a fetch settling) to the point where the handler waits for     *)
(* the network again; code that only awaits already-settled promises runs  *)
(* in the microtasks of the same event and belongs to the same action.     *)
(* A fetch settles with its whole body.                                    *)
(***************************************************************************)
EXTENDS Naturals, Sequences, FiniteSets, TLC

VARIABLES
    CACHE,      \* fetch-and-cache.ts CACHE: request key -> Response
    urlCache,   \* fetch-and-cache.ts urlCache: specifier / href -> entry
    virtualFS,  \* fetch-and-cache.ts virtualFS: virtual path -> content
    net,        \* the fetches in flight
    calls,      \* the handler invocations (resolve, load, getRequest)
    build,      \* the build under way: its imports, its overlap, its faults
    faults,     \* how many times the network departed from the site
    delivered   \* history: every response a fetch has produced

vars == <<CACHE, urlCache, virtualFS, net, calls, build, faults, delivered>>

(***************************************************************************)
(* Bounds of the model.                                                    *)
(***************************************************************************)
\* handler invocations in one run
NumCalls == 3
\* invocations that may have work outstanding at the same time
MaxActive == 2
\* times the network may depart from the site in one run
MaxFaults == 1

----------------------------------------------------------------------------
(***************************************************************************)
(* Strings.                                                                *)
(***************************************************************************)
Special == {"/", "@", ".", ":"}

Max(S) == CHOOSE m \in S : \A y \in S : y <= m
Min(S) == CHOOSE m \in S : \A y \in S : m <= y

StartsWith(s, p) == Len(p) <= Len(s) /\ SubSeq(s, 1, Len(p)) = p
EndsWith(s, p) == Len(p) <= Len(s) /\ SubSeq(s, Len(s) - Len(p) + 1, Len(s)) = p
Drop(s, n) == SubSeq(s, n + 1, Len(s))
Take(s, n) == SubSeq(s, 1, n)
IndicesOf(s, t) == {i \in 1..Len(s) : s[i] = t}
LastIndexOf(s, t) == IF IndicesOf(s, t) = {} THEN 0 ELSE Max(IndicesOf(s, t))
\* the first index at or after `from` holding t, or 0
IndexFrom(s, t, from) ==
    LET I == {i \in IndicesOf(s, t) : i >= from}
    IN IF I = {} THEN 0 ELSE Min(I)
\* s.replace(/^p/, r) for a literal prefix p
ReplacePrefix(s, p, r) == IF StartsWith(s, p) THEN r \o Drop(s, Len(p)) ELSE s

\* the empty string and JavaScript's undefined, for string-valued slots
Empty == <<>>
Undefined == <<"#undefined">>
\* the value false of a JSON text
False == <<"#false">>
Truthy(s) == s # Undefined /\ s # Empty /\ s # False

\* node:path extname: from the last "." of the last segment to the end; ""
\* when there is none or when it is the segment's first character
extname(p) ==
    LET base == Drop(p, LastIndexOf(p, "/"))
        dot == LastIndexOf(base, ".")
    IN IF dot <= 1 \/ base = <<".", ".">> THEN Empty
       ELSE SubSeq(base, dot, Len(base))

\* the segments of a path between its "/" tokens
RECURSIVE Segments(_)
Segments(s) ==
    LET k == IndexFrom(s, "/", 1)
    IN IF k = 0 THEN <<s>> ELSE <<Take(s, k - 1)>> \o Segments(Drop(s, k))

\* node:path normalize on segments: "" and "." dropped, ".." pops
RECURSIVE NormalizeSegs(_, _)
NormalizeSegs(segs, acc) ==
    IF segs = <<>> THEN acc
    ELSE LET h == Head(segs)
         IN IF h = Empty \/ h = <<".">> THEN NormalizeSegs(Tail(segs), acc)
            ELSE IF h = <<".", ".">>
                 THEN NormalizeSegs(Tail(segs),
                                    IF acc = <<>> THEN acc ELSE Take(acc, Len(acc) - 1))
                 ELSE NormalizeSegs(Tail(segs), Append(acc, h))

RECURSIVE JoinSegs(_)
JoinSegs(segs) ==
    IF segs = <<>> THEN Empty
    ELSE IF Len(segs) = 1 THEN segs[1]
    ELSE segs[1] \o <<"/">> \o JoinSegs(Tail(segs))

\* node:path join(a, b), for an absolute or empty a
join(a, b) ==
    LET whole == IF a = Empty THEN b ELSE a \o <<"/">> \o b
        body == JoinSegs(NormalizeSegs(Segments(whole), <<>>))
    IN IF StartsWith(whole, <<"/">>) THEN <<"/">> \o body
       ELSE IF body = Empty THEN <<".">> ELSE body

\* node:path isAbsolute (posix)
isAbsolute(p) == StartsWith(p, <<"/">>)

----------------------------------------------------------------------------
(***************************************************************************)
(* CDN helpers (src/utils.ts).                                             *)
(***************************************************************************)
Https == <<"https", ":", "/", "/">>
Slash == <<"/">>

DEFAULT_CDN_HOST == Https \o <<"unpkg", ".", "com">>
SkypackHost == Https \o <<"cdn", ".", "skypack", ".", "dev">>
EsmHost == Https \o <<"cdn", ".", "esm", ".", "sh">>
JsdelivrNpm == Https \o <<"cdn", ".", "jsdelivr", ".", "net", "/", "npm">>
JsdelivrGh == Https \o <<"cdn", ".", "jsdelivr", ".", "net", "/", "gh">>
DenoHost == Https \o <<"deno", ".", "land", "/", "x">>
GithubHost == Https \o <<"raw", ".", "githubusercontent", ".", "com">>

\* the scheme prefixes in the order getCDNOrigin tests them, with their hosts
CDNSchemes == <<
    [prefix |-> <<"skypack", ":">>, cdn |-> SkypackHost],
    [prefix |-> <<"esm", ".", "sh", ":">>, cdn |-> EsmHost],
    [prefix |-> <<"esm", ":">>, cdn |-> EsmHost],
    [prefix |-> <<"unpkg", ":">>, cdn |-> DEFAULT_CDN_HOST],
    [prefix |-> <<"jsdelivr", ":">>, cdn |-> JsdelivrNpm],
    [prefix |-> <<"esm", ".", "run", ":">>, cdn |-> JsdelivrNpm],
    [prefix |-> <<"jsdelivr", ".", "gh", ":">>, cdn |-> JsdelivrGh],
    [prefix |-> <<"deno", ":">>, cdn |-> DenoHost],
    [prefix |-> <<"github", ":">>, cdn |-> GithubHost] >>

\* the origins getPureImportPath strips, in the order of its alternation
KnownOrigins == <<SkypackHost, EsmHost, JsdelivrNpm, DEFAULT_CDN_HOST,
                  JsdelivrGh, GithubHost, DenoHost>>

MatchingSchemes(importStr) ==
    {i \in 1..Len(CDNSchemes) : StartsWith(importStr, CDNSchemes[i].prefix)}

\* a variant of getCDNOrigin in which a default CDN the caller supplies
\* takes precedence over the scheme of the specifier
getCDNOrigin_SuppliedFirst(importStr, cdn) ==
    LET M == MatchingSchemes(importStr)
        host == IF M = {} \/ cdn # DEFAULT_CDN_HOST THEN cdn ELSE CDNSchemes[Min(M)].cdn
    IN IF EndsWith(host, Slash) THEN host ELSE host \o Slash

getCDNOrigin(importStr, cdn) ==
    LET M == MatchingSchemes(importStr)
        host == IF M = {} THEN cdn ELSE CDNSchemes[Min(M)].cdn
    IN IF EndsWith(host, Slash) THEN host ELSE host \o Slash

getPureImportPath(importStr) ==
    LET M == MatchingSchemes(importStr)
        s1 == IF M = {} THEN importStr
              ELSE Drop(importStr, Len(CDNSchemes[Min(M)].prefix))
        K == {i \in 1..Len(KnownOrigins) : StartsWith(s1, KnownOrigins[i])}
        s2 == IF K = {} THEN s1 ELSE Drop(s1, Len(KnownOrigins[Min(K)]))
    IN ReplacePrefix(s2, Slash, Empty)

\* scheme://host of an absolute URL, and the rest of it
OriginEnd(u) ==
    LET k == IndexFrom(u, "/", 5) IN IF k = 0 THEN Len(u) ELSE k - 1
UrlOrigin(u) == Take(u, OriginEnd(u))
pathname(u) == IF OriginEnd(u) = Len(u) THEN Slash ELSE Drop(u, OriginEnd(u))

HasScheme(s) == Len(s) >= 2 /\ s[1] \notin Special /\ s[2] = ":"

\* the URL parser's removal of dot segments: "." is dropped and ".." pops,
\* each leaving an empty last segment when it ends the path
RECURSIVE RemoveDotSegments(_, _)
RemoveDotSegments(segs, acc) ==
    IF segs = <<>> THEN acc
    ELSE LET h == Head(segs)
             last == Len(segs) = 1
             popped == IF acc = <<>> THEN acc ELSE Take(acc, Len(acc) - 1)
         IN IF h = <<".">>
            THEN RemoveDotSegments(Tail(segs), IF last THEN Append(acc, Empty) ELSE acc)
            ELSE IF h = <<".", ".">>
            THEN RemoveDotSegments(Tail(segs),
                                   IF last THEN Append(popped, Empty) ELSE popped)
            ELSE RemoveDotSegments(Tail(segs), Append(acc, h))

\* the path of a URL as the parser writes it, for a path with a leading "/"
UrlPath(p) == Slash \o JoinSegs(RemoveDotSegments(Segments(Drop(p, 1)), <<>>))

\* new URL(path, base).toString(), for an https base.  A path with a scheme
\* is a URL of its own, unless the scheme is the base's and no "//" follows
\* it: then the rest is read against the base.  A path with a leading "/"
\* replaces the base's path, any other path is appended to the base's
\* directory.
RECURSIVE NewURL(_, _)
NewURL(path, base) ==
    IF HasScheme(path)
    THEN IF path[1] = base[1] /\ ~StartsWith(Drop(path, 2), <<"/", "/">>)
         THEN NewURL(Drop(path, 2), base)
         ELSE UrlOrigin(path) \o UrlPath(pathname(path))
    ELSE IF StartsWith(path, Slash) THEN UrlOrigin(base) \o UrlPath(path)
    ELSE UrlOrigin(base)
             \o UrlPath(Take(pathname(base), LastIndexOf(pathname(base), "/")) \o path)

getCDNUrl(importStr, cdn) ==
    LET origin == getCDNOrigin(importStr, cdn)
        path == getPureImportPath(importStr)
    IN [path |-> path, origin |-> origin, url |-> NewURL(path, origin)]

isBareImport(importStr) == ~StartsWith(importStr, <<".">>) /\ ~isAbsolute(importStr)

\* the relative-import tests of onResolve (older revisions spell them inline)
isRelative(p) == StartsWith(p, <<".">>)
isNodeModule(importer) == StartsWith(importer, <<"/", "node_modules">>)

\* node:path dirname (posix)
dirname(p) ==
    LET k == LastIndexOf(p, "/")
    IN IF k = 0 THEN <<".">> ELSE IF k = 1 THEN Slash ELSE Take(p, k - 1)

RESOLVE_EXTENSIONS == {<<".", "tsx">>, <<".", "ts">>, <<".", "jsx">>, <<".", "js">>,
                       <<".", "css">>, <<".", "json">>}

\* a variant of inferLoader that hands JavaScript files to the js loader
inferLoader_JsAsJs(urlStr) ==
    LET ext == extname(urlStr)
    IN IF ext \in RESOLVE_EXTENSIONS THEN ext[2]
       ELSE IF ext \in {<<".", "mjs">>, <<".", "cjs">>} THEN "js"
       ELSE IF ext \in {<<".", "mts">>, <<".", "cts">>} THEN "ts"
       ELSE IF ext = <<".", "scss">> THEN "css"
       ELSE IF ext \in {<<".", "png">>, <<".", "jpeg">>, <<".", "ttf">>} THEN "dataurl"
       ELSE IF ext \in {<<".", "svg">>, <<".", "html">>, <<".", "txt">>} THEN "text"
       ELSE IF ext = <<".", "wasm">> THEN "file"
       ELSE IF Len(ext) > 0 THEN "text" ELSE "ts"

\* the loader esbuild is told to use, from the extension of the path.  An
\* extension of RESOLVE_EXTENSIONS names its loader, with .js read as .ts and
\* .jsx as .tsx (ext.replace(/^\.js/, ".ts").slice(1))
inferLoader(urlStr) ==
    LET ext == extname(urlStr)
    IN IF ext \in RESOLVE_EXTENSIONS
       THEN (IF ext[2] = "js" THEN "ts" ELSE IF ext[2] = "jsx" THEN "tsx" ELSE ext[2])
       ELSE IF ext \in {<<".", "mjs">>, <<".", "cjs">>} THEN "ts"
       ELSE IF ext \in {<<".", "mts">>, <<".", "cts">>} THEN "ts"
       ELSE IF ext = <<".", "scss">> THEN "css"
       ELSE IF ext \in {<<".", "png">>, <<".", "jpeg">>, <<".", "ttf">>} THEN "dataurl"
       ELSE IF ext \in {<<".", "svg">>, <<".", "html">>, <<".", "txt">>} THEN "text"
       ELSE IF ext = <<".", "wasm">> THEN "file"
       ELSE IF Len(ext) > 0 THEN "text" ELSE "ts"

----------------------------------------------------------------------------
(***************************************************************************)
(* Maps (JavaScript Map and plain objects).                                *)
(***************************************************************************)
EmptyMap == [k \in {} |-> k]
Put(m, k, v) == [x \in DOMAIN m \cup {k} |-> IF x = k THEN v ELSE m[x]]
Has(m, k) == k \in DOMAIN m

\* an object as the sequence of its <<key, value>> entries, in key order
Keys(obj) == {obj[i][1] : i \in 1..Len(obj)}
Lookup(obj, k) == obj[Min({i \in 1..Len(obj) : obj[i][1] = k})][2]

----------------------------------------------------------------------------
(***************************************************************************)
(* Package manifests, response bodies and responses.                       *)
(***************************************************************************)
\* {} as a PackageJson: no field declared.  A browser field that is a
\* string is held in `browser`, one that is an object in `browserMap`
EmptyPkg ==
    [name |-> Undefined, version |-> Undefined, main |-> Undefined,
     module |-> Undefined, browser |-> Undefined, browserMap |-> <<>>,
     exports |-> <<>>,
     dependencies |-> <<>>, devDependencies |-> <<>>,
     peerDependencies |-> <<>>, sideEffects |-> Undefined,
     description |-> Undefined]

\* a body: text that is no JSON at all, or a JSON text of `pkg`.  A JSON
\* text is what JSON.stringify writes (JsonBody) or the indented text of a
\* published package.json (PublishedJson); JSON.parse gives both the same value
TextBody(t) == [json |-> FALSE, text |-> t, pkg |-> EmptyPkg]
JsonBody(pkg) == [json |-> TRUE, text |-> Empty, pkg |-> pkg]
PublishedJson(pkg) == [json |-> TRUE, text |-> <<"indented">>, pkg |-> pkg]

\* the content a file has after it was updated on the CDN
Updated(body) ==
    IF body.json THEN [body EXCEPT !.pkg.description = <<"updated">>]
    ELSE [body EXCEPT !.text = @ \o <<"(updated)">>]

OkResponse(url, body) == [ok |-> TRUE, status |-> 200, url |-> url, body |-> body]
ErrResponse(url, status) ==
    [ok |-> FALSE, status |-> status, url |-> url, body |-> TextBody(<<"error">>)]
NoResponse == ErrResponse(Empty, 0)

----------------------------------------------------------------------------
(***************************************************************************)
(* The CDN: the files the site serves, and the ways one fetch may depart   *)
(* from them (a network error, an error status, a newer content).          *)
(***************************************************************************)
React == <<"react">>
Pkg == <<"pkg">>
Tool == <<"tool">>
Nope == <<"nope">>
At == <<"@">>
Latest == <<"latest">>
V18 == <<"18", ".", "2", ".", "0">>
V17 == <<"17", ".", "0", ".", "2">>
V1 == <<"1", ".", "0", ".", "0">>
PackageJsonFile == <<"/", "package", ".", "json">>
IndexJs == <<"index", ".", "js">>

React18Pkg == [EmptyPkg EXCEPT !.name = React, !.version = V18, !.main = IndexJs]
React17Pkg == [EmptyPkg EXCEPT !.name = React, !.version = V17, !.main = IndexJs,
                               !.sideEffects = <<"false">>]
PkgPkg == [EmptyPkg EXCEPT !.name = Pkg, !.version = V1]

Cdn(path) == DEFAULT_CDN_HOST \o Slash \o path

\* kit: a package with an exports map and peer dependencies, and with
\* directories that carry a package.json of their own
Kit == <<"kit">>
KitAt == Kit \o At \o V1
KitPkg == [EmptyPkg EXCEPT !.name = Kit, !.version = V1, !.main = IndexJs,
               !.exports = << << <<".", "/", "feature">>,
                                 <<".", "/", "dist", "/", "feature", ".", "js">> >> >>,
               !.peerDependencies = << <<React, <<"^18">>>>, <<Tool, <<"^1">>>> >>]
\* kit/sub/package.json: an entry, neither name nor version
SubPkg == [EmptyPkg EXCEPT !.module = <<"entry", ".", "js">>]
\* kit/hooks/package.json: a name and a version of its own
HooksPkg == [EmptyPkg EXCEPT !.name = <<"kit-hooks">>, !.version = <<"0", ".", "1", ".", "0">>,
                             !.main = <<"hooks", ".", "js">>]
\* kit/plain/package.json: no entry field at all
PlainPkg == [EmptyPkg EXCEPT !.description = <<"plain">>]
\* kit/web/package.json and kit/cjs/package.json: a browser field that is
\* an object
WebPkg == [EmptyPkg EXCEPT !.browserMap =
              << << <<"main", ".", "js">>, False >>,
                 << <<"main", ".", "cjs">>, <<".", "/", "a", ".", "cjs">> >>,
                 << <<"main", ".", "mjs">>, <<".", "/", "a", ".", "mjs">> >> >>]
CjsPkg == [EmptyPkg EXCEPT !.browserMap =
              << << <<"main", ".", "cjs">>, <<".", "/", "a", ".", "cjs">> >>,
                 << <<"src", "/", "main", ".", "js">>, <<".", "/", "s", ".", "js">> >> >>]
\* iso: a package whose browser field replaces one module by another
Iso == <<"iso">>
IsoPkg == [EmptyPkg EXCEPT !.name = Iso, !.version = V1,
               !.browserMap = << << <<"ws">>, <<"iso-ws">> >> >>]
KitFiles == {
    [req |-> Cdn(Iso \o At \o Latest \o PackageJsonFile), body |-> PublishedJson(IsoPkg)],
    [req |-> Cdn(KitAt \o PackageJsonFile), body |-> PublishedJson(KitPkg)],
    [req |-> Cdn(KitAt \o <<"/", "sub">> \o PackageJsonFile), body |-> PublishedJson(SubPkg)],
    [req |-> Cdn(KitAt \o <<"/", "hooks">> \o PackageJsonFile), body |-> PublishedJson(HooksPkg)],
    [req |-> Cdn(KitAt \o <<"/", "plain">> \o PackageJsonFile), body |-> PublishedJson(PlainPkg)],
    [req |-> Cdn(KitAt \o <<"/", "web">> \o PackageJsonFile), body |-> PublishedJson(WebPkg)],
    [req |-> Cdn(KitAt \o <<"/", "cjs">> \o PackageJsonFile), body |-> PublishedJson(CjsPkg)],
    [req |-> Cdn(KitAt \o <<"/", "dist", "/", "feature", ".", "js">>),
     body |-> TextBody(<<"feature">>)],
    [req |-> Cdn(KitAt \o <<"/", "sub", "/", "entry", ".", "js">>), body |-> TextBody(<<"entry">>)],
    [req |-> Cdn(KitAt \o <<"/", "hooks", "/", "hooks", ".", "js">>),
     body |-> TextBody(<<"hooks">>)],
    [req |-> Cdn(KitAt \o <<"/", "plain", "/", "index", ".", "js">>),
     body |-> TextBody(<<"plain">>)],
    [req |-> Cdn(KitAt \o <<"/", "web", "/", "a", ".", "mjs">>), body |-> TextBody(<<"web">>)],
    [req |-> Cdn(KitAt \o <<"/", "cjs", "/", "a", ".", "cjs">>), body |-> TextBody(<<"cjs">>)],
    [req |-> Cdn(React \o At \o V18 \o <<"/", "logo", "@", "2x", ".", "png">>),
     body |-> TextBody(<<"logo18">>)],
    [req |-> Cdn(React \o At \o V17 \o <<"/", "logo", "@", "2x", ".", "png">>),
     body |-> TextBody(<<"logo17">>)] }
\* the same package as esm.sh serves it
Esm(path) == EsmHost \o Slash \o path
LibX == <<"/", "lib", "/", "x", ".", "mjs">>
LibY == <<"/", "lib", "/", "y", ".", "mjs">>

\* request URL, final URL (after the CDN's redirects), body
SiteFiles == {
    [req |-> Cdn(React \o At \o Latest \o PackageJsonFile),
     url |-> Cdn(React \o At \o V18 \o PackageJsonFile), body |-> PublishedJson(React18Pkg)],
    [req |-> Cdn(React \o At \o V18 \o PackageJsonFile),
     url |-> Cdn(React \o At \o V18 \o PackageJsonFile), body |-> PublishedJson(React18Pkg)],
    [req |-> Cdn(React \o At \o V17 \o PackageJsonFile),
     url |-> Cdn(React \o At \o V17 \o PackageJsonFile), body |-> PublishedJson(React17Pkg)],
    [req |-> Cdn(React \o At \o V18 \o Slash \o IndexJs),
     url |-> Cdn(React \o At \o V18 \o Slash \o IndexJs), body |-> TextBody(<<"react18">>)],
    [req |-> Cdn(React \o At \o V17 \o Slash \o IndexJs),
     url |-> Cdn(React \o At \o V17 \o Slash \o IndexJs), body |-> TextBody(<<"react17">>)],
    [req |-> Cdn(React \o At \o V18 \o <<"/", "util", ".", "js">>),
     url |-> Cdn(React \o At \o V18 \o <<"/", "util", ".", "js">>), body |-> TextBody(<<"util">>)],
    [req |-> Cdn(Pkg \o At \o V1 \o PackageJsonFile),
     url |-> Cdn(Pkg \o At \o V1 \o PackageJsonFile), body |-> JsonBody(PkgPkg)],
    [req |-> Cdn(Pkg \o At \o V1 \o <<"/", "lib", "/", "x", ".", "mjs">>),
     url |-> Cdn(Pkg \o At \o V1 \o <<"/", "lib", "/", "x", ".", "mjs">>), body |-> TextBody(<<"x">>)],
    [req |-> Cdn(Pkg \o At \o V1 \o LibY),
     url |-> Cdn(Pkg \o At \o V1 \o LibY), body |-> TextBody(<<"y">>)],
    [req |-> Esm(Pkg \o At \o V1 \o PackageJsonFile),
     url |-> Esm(Pkg \o At \o V1 \o PackageJsonFile), body |-> JsonBody(PkgPkg)],
    [req |-> Esm(Pkg \o At \o V1 \o LibX),
     url |-> Esm(Pkg \o At \o V1 \o LibX), body |-> TextBody(<<"x", "(esm.sh)">>)],
    [req |-> Esm(Pkg \o At \o V1 \o LibY),
     url |-> Esm(Pkg \o At \o V1 \o LibY), body |-> TextBody(<<"y", "(esm.sh)">>)],
    [req |-> Cdn(Tool \o At \o Latest),
     url |-> Cdn(Tool \o At \o Latest), body |-> TextBody(<<"tool">>)] }
    \cup {[req |-> f.req, url |-> f.req, body |-> f.body] : f \in KitFiles}

Site(u) ==
    IF \E f \in SiteFiles : f.req = u
    THEN LET f == CHOOSE f \in SiteFiles : f.req = u IN OkResponse(f.url, f.body)
    ELSE ErrResponse(u, 404)

\* what a fetch of u may settle with: the site's answer, or, while the fault
\* budget lasts, a network error (fetch rejects), a 503, or a newer content
Answers(u, budgetLeft) ==
    LET base == Site(u)
    IN {[thrown |-> FALSE, fault |-> FALSE, resp |-> base]}
       \cup (IF budgetLeft
             THEN {[thrown |-> TRUE, fault |-> TRUE, resp |-> NoResponse]}
                  \cup (IF base.ok
                        THEN {[thrown |-> FALSE, fault |-> TRUE, resp |-> ErrResponse(u, 503)],
                              [thrown |-> FALSE, fault |-> TRUE,
                               resp |-> [base EXCEPT !.body = Updated(@)]]}
                        ELSE {})
             ELSE {})

----------------------------------------------------------------------------
(***************************************************************************)
(* The Fetch Cache (src/fetch-and-cache.ts).  The operators work on a      *)
(* record w of the shared state and return the record as they leave it.    *)
(***************************************************************************)
World == [CACHE |-> CACHE, urlCache |-> urlCache, virtualFS |-> virtualFS,
          net |-> net, faults |-> faults, delivered |-> delivered]

\* a fetch in flight: who issued it and at which step, and whether the
\* issuer awaits it (newRequest's clone) or left it in the background
Request(owner, stage, idx, url, awaited) ==
    [owner |-> owner, stage |-> stage, idx |-> idx, url |-> url, awaited |-> awaited]

\* newRequest up to its await: the fetch is issued
newRequest(w, rq) == [w EXCEPT !.net = @ \cup {rq}]

\* a newRequest that leaves an entry it finds in the cache as it is
newRequestSettle_KeepFirst(w, rq, ans) ==
    LET w1 == [w EXCEPT !.net = @ \ {rq},
                        !.faults = IF ans.fault THEN @ + 1 ELSE @]
    IN IF ans.thrown \/ Has(w.CACHE, rq.url) THEN w1
       ELSE [w1 EXCEPT !.CACHE = Put(@, rq.url, ans.resp),
                       !.delivered = @ \cup {[req |-> rq.url, resp |-> ans.resp]}]

\* a newRequest that stores ok responses only
newRequestSettle_OkOnly(w, rq, ans) ==
    LET w1 == [w EXCEPT !.net = @ \ {rq},
                        !.faults = IF ans.fault THEN @ + 1 ELSE @]
    IN IF ans.thrown THEN w1
       ELSE [w1 EXCEPT !.CACHE = IF ans.resp.ok THEN Put(@, rq.url, ans.resp) ELSE @,
                       !.delivered = @ \cup {[req |-> rq.url, resp |-> ans.resp]}]

\* newRequest after its await: a response is stored under the request's key,
\* a rejected fetch stores nothing
newRequestSettle(w, rq, ans) ==
    LET w1 == [w EXCEPT !.net = @ \ {rq},
                        !.faults = IF ans.fault THEN @ + 1 ELSE @]
    IN IF ans.thrown THEN w1
       ELSE [w1 EXCEPT !.CACHE = Put(@, rq.url, ans.resp),
                       !.delivered = @ \cup {[req |-> rq.url, resp |-> ans.resp]}]

\* a getRequest that refreshes on every hit, permanent or not
getRequest_AlwaysRefresh(w, owner, stage, idx, url, permanent) ==
    IF Has(w.CACHE, url)
    THEN [pending |-> FALSE, response |-> w.CACHE[url],
          w |-> newRequest(w, Request(owner, stage, idx, url, FALSE))]
    ELSE [pending |-> TRUE, response |-> NoResponse,
          w |-> newRequest(w, Request(owner, stage, idx, url, TRUE))]

\* a getRequest that, on a miss, joins a fetch of the same URL already in flight
getRequest_Coalescing(w, owner, stage, idx, url, permanent) ==
    IF Has(w.CACHE, url)
    THEN [pending |-> FALSE, response |-> w.CACHE[url],
          w |-> IF permanent THEN w
                ELSE newRequest(w, Request(owner, stage, idx, url, FALSE))]
    ELSE [pending |-> TRUE, response |-> NoResponse,
          w |-> IF \E rq \in w.net : rq.url = url THEN w
                ELSE newRequest(w, Request(owner, stage, idx, url, TRUE))]

\* getRequest up to its first await.  pending: the caller waits for the
\* network; otherwise `response` is what the call returns
getRequest(w, owner, stage, idx, url, permanent) ==
    IF Has(w.CACHE, url)
    THEN [pending |-> FALSE, response |-> w.CACHE[url],
          w |-> IF permanent THEN w
                ELSE newRequest(w, Request(owner, stage, idx, url, FALSE))]
    ELSE [pending |-> TRUE, response |-> NoResponse,
          w |-> newRequest(w, Request(owner, stage, idx, url, TRUE))]

----------------------------------------------------------------------------
(***************************************************************************)
(* Errors and handler invocations.                                         *)
(***************************************************************************)
NoError == [kind |-> "none", url |-> Empty, status |-> 0]
\* `throw err` of determineExtension when err was never assigned
UndefinedError == [kind |-> "undefined", url |-> Empty, status |-> 0]
\* parse-package-name: invalid package name
MalformedSpecifier == [kind |-> "malformed", url |-> Empty, status |-> 0]
\* fetch rejected
NetworkError(u) == [kind |-> "network", url |-> u, status |-> 0]
\* fetchPkg: Couldn't load url (status code)
HttpError(u, status) == [kind |-> "http", url |-> u, status |-> status]

\* a variant of the catch clause that keeps the latest error instead
FirstError_KeepLast(err, e) == e

\* err = err || e
FirstError(err, e) == IF err = NoError THEN e ELSE err

\* args.pluginData: the ancestor manifest and its sideEffects
PluginData(pkg, pkgDefined, sideEffects) ==
    [pkg |-> pkg, pkgDefined |-> pkgDefined, sideEffects |-> sideEffects]
NoPluginData == PluginData(EmptyPkg, FALSE, Undefined)

NoParsed == [ok |-> FALSE, name |-> Empty, version |-> Empty, path |-> Empty]

IdleCall ==
    [pc |-> "idle", op |-> "none",
     \* arguments
     path |-> Empty, importer |-> Empty, resolveDir |-> Empty,
     pluginData |-> NoPluginData, permanent |-> FALSE,
     \* locals of onResolve
     key |-> Empty, origin |-> Empty, parsed |-> NoParsed,
     cands |-> <<>>, sideEffects |-> Undefined, retData |-> NoPluginData,
     \* locals of determineExtension
     base |-> Empty, i |-> 0, err |-> NoError,
     \* how the call ended: "path", "none" (undefined), "response", "throw",
     \* "loaded"
     outcome |-> "pending", result |-> Empty, error |-> NoError,
     response |-> NoResponse,
     \* history: console.warn was called; the URLs handed to fetchPkg; the
     \* paths earlier resolves of the same specifier had returned at the start
     \* and the error the first attempt of determineExtension ended with
     warned |-> FALSE, attempts |-> <<>>, pinned |-> {}, firstCaught |-> NoError,
     \* history: the fetch of the package-root manifest had succeeded when
     \* the fetch of the subpath-local one succeeded
     rootFirst |-> FALSE,
     \* history: the call was answered from the Fetch Cache (getRequest) or
     \* from the index (onResolve); what fetchPkg returned to the loop of
     \* determineExtension, and what determineExtension returned
     hit |-> FALSE, indexed |-> FALSE,
     \* what getCDNUrl returned (getCDNOrigin returns into origin)
     cdnUrl |-> [path |-> Empty, origin |-> Empty, url |-> Empty],
     \* what onLoad returned: whether contents is defined, contents, loader
     loaded |-> FALSE, contents |-> TextBody(Empty), loader |-> "none",
     fetched |-> [ok |-> FALSE, at |-> 0, url |-> Empty, content |-> TextBody(Empty)],
     probed |-> [ok |-> FALSE, url |-> Empty, content |-> TextBody(Empty),
                 ext |-> Empty]]

----------------------------------------------------------------------------
(***************************************************************************)
(* parse-package-name, and the entry-point resolution of onResolve.        *)
(***************************************************************************)
\* the last index of the run of tokens outside `stops` that starts at `from`
RunEnd(s, from, stops) ==
    LET I == {i \in from..Len(s) : s[i] \in stops}
    IN IF I = {} THEN Len(s) ELSE Min(I) - 1

\* parse-package-name's
\*   /^(@[^/]+\/[^/@]+|[^/@]+)(?:@([^/]+))?(\/.*)?$/
\* with version defaulting to "latest" and path to ""
parsePackageName(input) ==
    LET scoped == StartsWith(input, At)
        slash == IndexFrom(input, "/", 1)
        nameFrom == IF scoped THEN slash + 1 ELSE 1
        nameEnd == RunEnd(input, nameFrom, {"/", "@"})
        nameOk == /\ (scoped => slash >= 3)
                  /\ nameEnd >= nameFrom
        hasAt == nameEnd < Len(input) /\ input[nameEnd + 1] = "@"
        verEnd == IF hasAt THEN RunEnd(input, nameEnd + 2, {"/"}) ELSE nameEnd
        verOk == hasAt => verEnd >= nameEnd + 2
    IN IF nameOk /\ verOk
       THEN [ok |-> TRUE,
             name |-> Take(input, nameEnd),
             version |-> IF hasAt THEN SubSeq(input, nameEnd + 2, verEnd) ELSE Latest,
             path |-> Drop(input, verEnd)]
       ELSE NoParsed

\* /\S+@\S+/.test(s)
HasVersionSeparator(s) == \E i \in 2..(Len(s) - 1) : s[i] = "@"

\* Object.assign({}, a, b, c)[k]: the last of a, b, c that declares k wins
AssignedLookup(a, b, c, k) ==
    IF k \in Keys(c) THEN Lookup(c, k)
    ELSE IF k \in Keys(b) THEN Lookup(b, k)
    ELSE Lookup(a, k)

\* lines 129-148: a bare specifier without a version takes the version the
\* ancestor manifest lists for its name
WithAncestorVersion(parsed, argPath, oldPkg) ==
    LET depsExists == \/ oldPkg.dependencies # <<>>
                      \/ oldPkg.devDependencies # <<>>
                      \/ oldPkg.peerDependencies # <<>>
        keys == Keys(oldPkg.devDependencies) \cup Keys(oldPkg.peerDependencies)
                    \cup Keys(oldPkg.dependencies)
    IN IF depsExists /\ ~HasVersionSeparator(argPath) /\ parsed.name \in keys
       THEN [parsed EXCEPT !.version =
                AssignedLookup(oldPkg.devDependencies, oldPkg.peerDependencies,
                               oldPkg.dependencies, parsed.name)]
       ELSE parsed

\* subpath.replace(/^\//, "./")
resolveRelativePath(path) == ReplacePrefix(path, Slash, <<".", "/">>)

\* resolve.exports resolve(): the target the exports map gives the entry
\* ("." for the package itself); nothing without a matching exports key
modernImportResolve(pkg, relativePath) ==
    LET entry == IF relativePath = Empty THEN <<".">> ELSE relativePath
    IN IF entry \in Keys(pkg.exports) THEN Lookup(pkg.exports, entry) ELSE Undefined

\* what legacy resolution returns: a string (or undefined) in `value`, or
\* the object of the browser field in `entries`
LegacyString(v) == [object |-> FALSE, value |-> v, entries |-> <<>>]
LegacyObject(obj) == [object |-> TRUE, value |-> Undefined, entries |-> obj]
\* if (legacyResolve): an object is truthy
LegacyTruthy(legacyResolve) == legacyResolve.object \/ Truthy(legacyResolve.value)

\* resolve.exports legacy(pkg, {browser: true}): the first of browser,
\* module, main that is set; a string as "./" + value.replace(/^\.?\//, ""),
\* the object of a browser field as it is
LegacyFields(pkg) == <<pkg.browser, pkg.module, pkg.main>>
legacyImportResolve(pkg) ==
    LET F == LegacyFields(pkg)
        I == {i \in 1..Len(F) : Truthy(F[i])}
        bare(v) == ReplacePrefix(ReplacePrefix(v, <<".", "/">>, Empty), Slash, Empty)
    IN IF pkg.browserMap # <<>> THEN LegacyObject(pkg.browserMap)
       ELSE IF I = {} THEN LegacyString(Undefined)
       ELSE LegacyString(<<".", "/">> \o bare(F[Min(I)]))

\* /src\//.exec(key)
ContainsSrcDir(key) == \E i \in 1..(Len(key) - 1) : key[i] = "src" /\ key[i + 1] = "/"

\* the keys of the object that may be used: neither *.cjs nor under src/,
\* and with a truthy value
nonCJSKeys(obj) ==
    {i \in 1..Len(obj) : /\ ~EndsWith(obj[i][1], <<".", "cjs">>)
                         /\ ~ContainsSrcDir(obj[i][1])
                         /\ Truthy(obj[i][2])}

\* a variant that takes the first key of the object whatever it is
getFirstValidValue_FirstKey(legacyResolve) ==
    IF legacyResolve.object THEN legacyResolve.entries[1][2] ELSE legacyResolve.value

\* a string result is its own first valid value; of an object it is the
\* value of the first usable key, or of the first key when none is usable
getFirstValidValue(legacyResolve) ==
    IF ~legacyResolve.object THEN legacyResolve.value
    ELSE LET obj == legacyResolve.entries
             usable == nonCJSKeys(obj)
         IN IF usable # {} THEN obj[Min(usable)][2] ELSE obj[1][2]

\* an entry point that keeps the name and the version of the specifier
EntryPoint_ParsedName(parsed, directory, pkg, isSubpathPackageJson) ==
    LET relativePath == resolveRelativePath(parsed.path)
        modernResolve == modernImportResolve(pkg, relativePath)
        legacyResolve == legacyImportResolve(pkg)
        resolvedPath ==
            IF Truthy(modernResolve) THEN modernResolve
            ELSE IF isSubpathPackageJson
                 THEN IF LegacyTruthy(legacyResolve) THEN getFirstValidValue(legacyResolve)
                      ELSE parsed.path
                 ELSE relativePath
        subpath0 == IF Truthy(resolvedPath)
                    THEN ReplacePrefix(resolvedPath, <<".", "/">>, Slash)
                    ELSE parsed.path
    IN [name |-> parsed.name,
        version |-> At \o parsed.version,
        subpath |-> IF Truthy(directory) /\ isSubpathPackageJson
                    THEN directory \o subpath0 ELSE subpath0]

\* an entry point that tries the legacy fields of whatever manifest is in use
EntryPoint_LegacyAnyManifest(parsed, directory, pkg, isSubpathPackageJson) ==
    LET relativePath == resolveRelativePath(parsed.path)
        modernResolve == modernImportResolve(pkg, relativePath)
        legacyResolve == legacyImportResolve(pkg)
        resolvedPath ==
            IF Truthy(modernResolve) THEN modernResolve
            ELSE IF isSubpathPackageJson \/ LegacyTruthy(legacyResolve)
                 THEN IF LegacyTruthy(legacyResolve) THEN getFirstValidValue(legacyResolve)
                      ELSE parsed.path
                 ELSE relativePath
        subpath0 == IF Truthy(resolvedPath)
                    THEN ReplacePrefix(resolvedPath, <<".", "/">>, Slash)
                    ELSE parsed.path
    IN [name |-> IF pkg.name = Undefined THEN parsed.name ELSE pkg.name,
        version |-> IF Truthy(pkg.version) THEN At \o pkg.version
                    ELSE At \o parsed.version,
        subpath |-> IF Truthy(directory) /\ isSubpathPackageJson
                    THEN directory \o subpath0 ELSE subpath0]

\* lines 218-266: name, version and subpath from the manifest in use
EntryPoint(parsed, directory, pkg, isSubpathPackageJson) ==
    LET relativePath == resolveRelativePath(parsed.path)
        modernResolve == modernImportResolve(pkg, relativePath)
        legacyResolve == legacyImportResolve(pkg)
        resolvedPath ==
            IF Truthy(modernResolve) THEN modernResolve
            ELSE IF isSubpathPackageJson
                 THEN IF LegacyTruthy(legacyResolve) THEN getFirstValidValue(legacyResolve)
                      ELSE parsed.path
                 ELSE relativePath
        subpath0 == IF Truthy(resolvedPath)
                    THEN ReplacePrefix(resolvedPath, <<".", "/">>, Slash)
                    ELSE parsed.path
    IN [name |-> IF pkg.name = Undefined THEN parsed.name ELSE pkg.name,
        version |-> IF Truthy(pkg.version) THEN At \o pkg.version
                    ELSE At \o parsed.version,
        subpath |-> IF Truthy(directory) /\ isSubpathPackageJson
                    THEN directory \o subpath0 ELSE subpath0]

\* a hand-down that leaves the peer dependencies of the manifest as they are
PatchPeerDependencies_Own(newPkg, oldPkg) == newPkg

\* lines 274-286: the manifest handed down as pluginData.pkg
PatchPeerDependencies(newPkg, oldPkg) ==
    LET peerDeps == newPkg.peerDependencies
        declared(k) == k \in Keys(oldPkg.devDependencies)
                              \cup Keys(oldPkg.dependencies)
                              \cup Keys(oldPkg.peerDependencies)
    IN [newPkg EXCEPT !.peerDependencies =
           [j \in 1..Len(peerDeps) |->
               <<peerDeps[j][1],
                 IF declared(peerDeps[j][1])
                 THEN AssignedLookup(oldPkg.devDependencies, oldPkg.dependencies,
                                     oldPkg.peerDependencies, peerDeps[j][1])
                 ELSE peerDeps[j][2]>>]]

----------------------------------------------------------------------------
(***************************************************************************)
(* The extension prober and the Virtual Content Store                      *)
(* (src/fetch-and-cache.ts).                                               *)
(***************************************************************************)
Endings == <<Empty, <<"/", "index">>>>
Extensions == <<Empty, <<".", "js">>, <<".", "mjs">>, <<"/", "index", ".", "js">>,
                <<".", "ts">>, <<".", "tsx">>, <<".", "cjs">>, <<".", "d", ".", "ts">>>>

\* Array.from(new Set(xs)): the first occurrence of each element, in order
RECURSIVE Unique(_, _)
Unique(xs, acc) ==
    IF xs = <<>> THEN acc
    ELSE Unique(Tail(xs),
                IF \E j \in 1..Len(acc) : acc[j] = Head(xs) THEN acc
                ELSE Append(acc, Head(xs)))

allEndingVariants ==
    Unique([k \in 1..(Len(Endings) * Len(Extensions)) |->
               Endings[((k - 1) \div Len(Extensions)) + 1]
                   \o Extensions[((k - 1) % Len(Extensions)) + 1]],
           <<>>)

NodeModules == <<"/", "node_modules">>

\* the call ends by throwing e
Throw(c, e) == [c EXCEPT !.pc = "done", !.outcome = "throw", !.error = e]

\* a fetchAndCacheContent that writes the index and leaves the store alone
fetchAndCacheContent_IndexOnly(w, c, urlStr, content) ==
    LET filePath == NodeModules \o pathname(urlStr)
    IN [w |-> [w EXCEPT !.urlCache = Put(@, c.key, [path |-> filePath,
                                                    sideEffects |-> c.sideEffects])],
        c |-> [c EXCEPT !.pc = "done", !.outcome = "path", !.result = filePath]]

\* fetchAndCacheContent after determineExtension returned, and the return of
\* onResolve that follows it
fetchAndCacheContent(w, c, urlStr, content) ==
    LET filePath == NodeModules \o pathname(urlStr)
    IN [w |-> [w EXCEPT !.virtualFS = Put(@, filePath, content),
                        !.urlCache = Put(@, c.key, [path |-> filePath,
                                                    sideEffects |-> c.sideEffects])],
        c |-> [c EXCEPT !.pc = "done", !.outcome = "path", !.result = filePath]]

\* determineExtension after its loop, for an attempt that fetched url
\* (lines 88-105): without an extension it throws err
determineExtensionEnd(w, c, url, content) ==
    LET ext == extname(url)
        c1 == [c EXCEPT !.fetched = [ok |-> TRUE, at |-> c.i, url |-> url,
                                     content |-> content]]
    IN IF ext = Empty
       THEN [w |-> w, c |-> Throw(c1, IF c.err = NoError THEN UndefinedError ELSE c.err)]
       ELSE fetchAndCacheContent(w,
                [c1 EXCEPT !.probed = [ok |-> TRUE, url |-> url, content |-> content,
                                       ext |-> ext]],
                url, content)

\* determineExtension from variant i on; fetchPkg of each variant
RECURSIVE determineExtension(_, _, _, _)
RECURSIVE fetchPkgSettled(_, _, _, _, _)
determineExtension(w, cid, c, i) ==
    IF i > Len(allEndingVariants)
    THEN [w |-> w, c |-> Throw(c, IF c.err = NoError THEN UndefinedError ELSE c.err)]
    ELSE LET testingUrl == c.base \o allEndingVariants[i]
             c1 == [c EXCEPT !.i = i, !.attempts = Append(@, testingUrl)]
             g == getRequest(w, cid, "probe", i, testingUrl, FALSE)
         IN IF g.pending THEN [w |-> g.w, c |-> [c1 EXCEPT !.pc = "probing"]]
            ELSE fetchPkgSettled(g.w, cid, c1, FALSE, g.response)

\* fetchPkg after its getRequest (lines 55-65) and the loop body around it
fetchPkgSettled(w, cid, c, thrown, response) ==
    LET testingUrl == c.base \o allEndingVariants[c.i]
        url == IF response.url = Empty THEN testingUrl ELSE response.url
    IN IF thrown
       THEN determineExtension(w, cid,
                [c EXCEPT !.err = FirstError(@, NetworkError(testingUrl)),
                          !.firstCaught = IF c.i = 1 THEN NetworkError(testingUrl) ELSE @],
                c.i + 1)
       ELSE IF ~response.ok
       THEN determineExtension(w, cid,
                [c EXCEPT !.err = FirstError(@, HttpError(url, response.status)),
                          !.firstCaught = IF c.i = 1 THEN HttpError(url, response.status)
                                          ELSE @],
                c.i + 1)
       ELSE determineExtensionEnd(w, c, url, response.body)

----------------------------------------------------------------------------
(***************************************************************************)
(* onResolve (src/esbuild.ts).                                             *)
(***************************************************************************)
JSONparseable(content) == content.json
JSONparse(content) == content.pkg
JSONstringify(pkg) == JsonBody(pkg)

\* lines 160-170: the manifest candidates, subpath-local first
packageJsonLocations(parsed, origin) ==
    LET isDirectory == extname(parsed.path) = Empty
        root == parsed.name \o At \o parsed.version \o PackageJsonFile
        local == parsed.name \o At \o parsed.version \o parsed.path \o PackageJsonFile
        first == IF isDirectory THEN local ELSE root
        locations == IF isDirectory THEN Unique(<<local, root>>, <<>>) ELSE <<root>>
    IN [k \in 1..Len(locations) |->
           [href |-> getCDNUrl(locations[k], origin).url,
            isSubpathPackageJson |-> isDirectory /\ locations[k] = first,
            state |-> "pending", pkg |-> EmptyPkg]]

\* the manifest policy of getRequest(url) at line 187
ManifestPermanent == FALSE

\* a manifest fetch that stores whatever answer it got
packageJsonSettled_Unchecked(w, cand, thrown, res) ==
    IF thrown
    THEN [w |-> w, cand |-> [cand EXCEPT !.state = "rejected"]]
    ELSE LET pkg == JSONparse(res.body)
             pkgPath == NodeModules \o pathname(res.url)
         IN [w |-> [w EXCEPT !.virtualFS = Put(@, pkgPath, JSONstringify(pkg)),
                             !.urlCache = Put(@, cand.href,
                                              [path |-> pkgPath, sideEffects |-> Undefined])],
             cand |-> [cand EXCEPT !.state = IF res.ok THEN "fulfilled" ELSE "rejected",
                                   !.pkg = pkg]]

\* lines 188-199: one manifest fetch after its getRequest
packageJsonSettled(w, cand, thrown, res) ==
    IF thrown \/ ~res.ok \/ ~JSONparseable(res.body)
    THEN [w |-> w, cand |-> [cand EXCEPT !.state = "rejected"]]
    ELSE LET pkg == JSONparse(res.body)
             pkgPath == NodeModules \o pathname(res.url)
         IN [w |-> [w EXCEPT !.virtualFS = Put(@, pkgPath, JSONstringify(pkg)),
                             !.urlCache = Put(@, cand.href,
                                              [path |-> pkgPath, sideEffects |-> Undefined])],
             cand |-> [cand EXCEPT !.state = "fulfilled", !.pkg = pkg]]

\* lines 175-187: one manifest fetch up to its await
packageJsonFetch(w, cid, k, cand) ==
    IF Has(w.urlCache, cand.href)
    THEN LET pkgPath == w.urlCache[cand.href].path
         IN IF Has(w.virtualFS, pkgPath) /\ JSONparseable(w.virtualFS[pkgPath])
            THEN [w |-> w, cand |-> [cand EXCEPT !.state = "fulfilled",
                                                 !.pkg = JSONparse(w.virtualFS[pkgPath])]]
            ELSE [w |-> w, cand |-> [cand EXCEPT !.state = "rejected"]]
    ELSE LET g == getRequest(w, cid, "manifest", k, cand.href, ManifestPermanent)
         IN IF g.pending THEN [w |-> g.w, cand |-> cand]
            ELSE packageJsonSettled(g.w, cand, FALSE, g.response)

\* lines 173-200: all the manifest fetches, started in order
RECURSIVE packageJsonFetches(_, _, _, _)
packageJsonFetches(w, cid, cands, k) ==
    IF k > Len(cands) THEN [w |-> w, cands |-> cands]
    ELSE LET r == packageJsonFetch(w, cid, k, cands[k])
         IN packageJsonFetches(r.w, cid, [cands EXCEPT ![k] = r.cand], k + 1)

\* a wait that ends with the first manifest fetch that settles
AllSettled_Any(cands) == \E k \in 1..Len(cands) : cands[k].state # "pending"
\* line 203: Promise.allSettled
AllSettled(cands) == \A k \in 1..Len(cands) : cands[k].state # "pending"
\* a selection that puts the package-root manifest before the subpath-local
Fulfilled_RootFirst(cands) ==
    LET ok == SelectSeq(cands, LAMBDA x : x.state = "fulfilled")
    IN [k \in 1..Len(ok) |-> ok[Len(ok) + 1 - k]]
\* lines 203-206: the fulfilled results of Promise.allSettled, which are in
\* the order of the candidates
Fulfilled(cands) == SelectSeq(cands, LAMBDA x : x.state = "fulfilled")

\* a fallback that forgets the subpath of the specifier
LiteralEntry_RootOnly(parsed) ==
    [name |-> parsed.name, version |-> At \o parsed.version, subpath |-> Empty]

\* lines 150-152: name, version and subpath before any manifest is read
LiteralEntry(parsed) ==
    [name |-> parsed.name, version |-> At \o parsed.version, subpath |-> parsed.path]

\* line 288: getCDNUrl(`${name}${version}${subpath}`, origin)
EntryUrl(entry, origin) ==
    getCDNUrl(entry.name \o entry.version \o entry.subpath, origin).url

\* a variant that enters the specifier in the index before the content of
\* the entry has been fetched
AfterManifests_IndexFirst(w, cid, c) ==
    LET successfulFetches == Fulfilled(c.cands)
        failed == successfulFetches = <<>>
        oldPkg == c.pluginData.pkg
        used == IF failed THEN [pkg |-> oldPkg, isSubpathPackageJson |-> FALSE]
                ELSE successfulFetches[1]
        directory == IF extname(c.parsed.path) = Empty THEN c.parsed.path ELSE Empty
        entry == IF failed THEN LiteralEntry(c.parsed)
                 ELSE EntryPoint(c.parsed, directory, used.pkg, used.isSubpathPackageJson)
        sideEffects == IF failed THEN c.pluginData.sideEffects ELSE used.pkg.sideEffects
        pkg == PatchPeerDependencies(used.pkg, oldPkg)
    IN determineExtension(
           [w EXCEPT !.urlCache =
               Put(@, c.key, [path |-> NodeModules \o pathname(EntryUrl(entry, c.origin)),
                              sideEffects |-> sideEffects])],
           cid,
           [c EXCEPT !.warned = failed, !.sideEffects = sideEffects,
                     !.retData = PluginData(pkg, TRUE, sideEffects),
                     !.base = EntryUrl(entry, c.origin)],
           1)

\* lines 203-289: once every manifest fetch has settled, the entry point and
\* the start of the content fetch
AfterManifests(w, cid, c) ==
    LET successfulFetches == Fulfilled(c.cands)
        failed == successfulFetches = <<>>
        oldPkg == c.pluginData.pkg
        used == IF failed THEN [pkg |-> oldPkg, isSubpathPackageJson |-> FALSE]
                ELSE successfulFetches[1]
        directory == IF extname(c.parsed.path) = Empty THEN c.parsed.path ELSE Empty
        entry == IF failed THEN LiteralEntry(c.parsed)
                 ELSE EntryPoint(c.parsed, directory, used.pkg, used.isSubpathPackageJson)
        sideEffects == IF failed THEN c.pluginData.sideEffects ELSE used.pkg.sideEffects
        pkg == PatchPeerDependencies(used.pkg, oldPkg)
    IN determineExtension(w, cid,
           [c EXCEPT !.warned = failed, !.sideEffects = sideEffects,
                     !.retData = PluginData(pkg, TRUE, sideEffects),
                     !.base = EntryUrl(entry, c.origin)],
           1)

\* a bare branch that asks the CDN for the manifest of the specifier as it
\* is written before it rejects the specifier
resolveBare_FetchFirst(w, cid, c0, argPath, origin) ==
    LET parsed0 == parsePackageName(argPath)
        parsed == WithAncestorVersion(parsed0, argPath, c0.pluginData.pkg)
        fetches == packageJsonFetches(w, cid, packageJsonLocations(parsed, origin), 1)
        c1 == [c0 EXCEPT !.parsed = parsed, !.cands = fetches.cands, !.pc = "manifests"]
    IN IF ~parsed0.ok
       THEN [w |-> newRequest(w, Request(cid, "manifest", 1,
                                         getCDNUrl(argPath \o PackageJsonFile, origin).url,
                                         FALSE)),
             c |-> Throw(c0, MalformedSpecifier)]
       ELSE IF AllSettled(fetches.cands) THEN AfterManifests(fetches.w, cid, c1)
       ELSE [w |-> fetches.w, c |-> c1]

\* lines 203-213: the call once its manifest fetches have been started
ManifestsStarted(cid, c0, parsed, fetches) ==
    IF AllSettled(fetches.cands)
    THEN AfterManifests(fetches.w, cid,
             [c0 EXCEPT !.parsed = parsed, !.cands = fetches.cands, !.pc = "manifests"])
    ELSE [w |-> fetches.w,
          c |-> [c0 EXCEPT !.parsed = parsed, !.cands = fetches.cands, !.pc = "manifests"]]

\* lines 154-203: the manifest fetches of a parsed specifier
resolveParsed(w, cid, c0, parsed, origin) ==
    ManifestsStarted(cid, c0, parsed,
                     packageJsonFetches(w, cid, packageJsonLocations(parsed, origin), 1))

\* lines 125-203: the bare branch of onResolve up to its first wait
resolveBare(w, cid, c0, argPath, origin) ==
    IF ~parsePackageName(argPath).ok THEN [w |-> w, c |-> Throw(c0, MalformedSpecifier)]
    ELSE resolveParsed(w, cid, c0,
                       WithAncestorVersion(parsePackageName(argPath), argPath,
                                           c0.pluginData.pkg),
                       origin)

\* an onResolve that takes every relative specifier to the CDN, whatever
\* its importer
onResolve_RelativeToCdn(w, cid, c) ==
    LET cu == getCDNUrl(c.path, DEFAULT_CDN_HOST)
        argPath == cu.path
        bare == isBareImport(c.path)
        path == IF bare THEN argPath ELSE join(c.resolveDir, argPath)
        c0 == [c EXCEPT !.key = path, !.origin = cu.origin,
                        !.sideEffects = c.pluginData.sideEffects]
    IN IF Has(w.urlCache, path)
       THEN [w |-> w,
             c |-> [c0 EXCEPT !.pc = "done", !.outcome = "path", !.indexed = TRUE,
                              !.result = w.urlCache[path].path,
                              !.sideEffects = w.urlCache[path].sideEffects,
                              !.retData = PluginData(EmptyPkg, FALSE,
                                                     w.urlCache[path].sideEffects)]]
       ELSE IF bare THEN resolveBare(w, cid, c0, argPath, cu.origin)
       ELSE IF isRelative(c.path)
       THEN determineExtension(w, cid,
                [c0 EXCEPT !.base = NewURL(ReplacePrefix(path, NodeModules, Empty), cu.origin),
                           !.retData = c.pluginData], 1)
       ELSE [w |-> w, c |-> [c0 EXCEPT !.pc = "done", !.outcome = "none"]]

\* onResolve from its entry to its first wait (lines 96-125, 302-318)
onResolve(w, cid, c) ==
    LET cu == getCDNUrl(c.path, DEFAULT_CDN_HOST)
        argPath == cu.path
        bare == isBareImport(c.path)
        path == IF bare THEN argPath ELSE join(c.resolveDir, argPath)
        c0 == [c EXCEPT !.key = path, !.origin = cu.origin,
                        !.sideEffects = c.pluginData.sideEffects]
    IN IF Has(w.urlCache, path)
       THEN [w |-> w,
             c |-> [c0 EXCEPT !.pc = "done", !.outcome = "path", !.indexed = TRUE,
                              !.result = w.urlCache[path].path,
                              !.sideEffects = w.urlCache[path].sideEffects,
                              !.retData = PluginData(EmptyPkg, FALSE,
                                                     w.urlCache[path].sideEffects)]]
       ELSE IF bare THEN resolveBare(w, cid, c0, argPath, cu.origin)
       ELSE IF isRelative(c.path) /\ isNodeModule(c.importer)
       THEN determineExtension(w, cid,
                [c0 EXCEPT !.base = NewURL(ReplacePrefix(path, NodeModules, Empty), cu.origin),
                           !.retData = c.pluginData], 1)
       ELSE [w |-> w, c |-> [c0 EXCEPT !.pc = "done", !.outcome = "none"]]

----------------------------------------------------------------------------
(***************************************************************************)
(* The calls the bundler and other callers make.                           *)
(***************************************************************************)
Calls == 1..NumCalls

LocalDir == <<"/", "src">>
LocalImporter == LocalDir \o <<"/", "index", ".", "ts">>
ReactDir == NodeModules \o Slash \o React \o At \o V18
ReactImporter == ReactDir \o Slash \o IndexJs

\* the manifest of an application that depends on react 17
AppPkg == [EmptyPkg EXCEPT !.name = <<"app">>, !.dependencies = << <<React, V17>> >>]

ResolveArg(path, importer, resolveDir, pluginData) ==
    [path |-> path, importer |-> importer, resolveDir |-> resolveDir,
     pluginData |-> pluginData]

ReactPlain == ResolveArg(React, LocalImporter, LocalDir, NoPluginData)
ReactFromApp == ResolveArg(React, LocalImporter, LocalDir, PluginData(AppPkg, TRUE, Undefined))
ReactUtil == ResolveArg(<<".", "/", "util">>, ReactImporter, ReactDir,
                        PluginData(React18Pkg, TRUE, Undefined))
PkgLibX == ResolveArg(Pkg \o At \o V1 \o <<"/", "lib", "/", "x">>, LocalImporter,
                      LocalDir, NoPluginData)
ToolPlain == ResolveArg(Tool, LocalImporter, LocalDir, NoPluginData)
NopePlain == ResolveArg(Nope, LocalImporter, LocalDir, NoPluginData)
Malformed == ResolveArg(React \o At, LocalImporter, LocalDir, NoPluginData)
LocalFile == ResolveArg(<<".", "/", "local">>, LocalImporter, LocalDir, NoPluginData)
LocalAbsolute == ResolveArg(<<"/", "lib", "/", "utils">>, LocalImporter, LocalDir,
                            NoPluginData)

\* pkg imported from esm.sh, and the import "./y" of the file it resolved to
PkgDir == NodeModules \o Slash \o Pkg \o At \o V1 \o <<"/", "lib">>
EsmPkgLibX == ResolveArg(<<"esm", ":">> \o Pkg \o At \o V1 \o <<"/", "lib", "/", "x">>,
                         LocalImporter, LocalDir, NoPluginData)
PkgRelY == ResolveArg(<<".", "/", "y">>, NodeModules \o Slash \o Pkg \o At \o V1 \o LibX,
                      PkgDir, PluginData(PkgPkg, TRUE, Undefined))

\* the same file of pkg imported from the default CDN, extension included
PkgLibXMjs == ResolveArg(Pkg \o At \o V1 \o LibX, LocalImporter, LocalDir, NoPluginData)

React18Exact == ResolveArg(React \o At \o V18, LocalImporter, LocalDir, NoPluginData)

\* imports of an application whose manifest lists react 17: react with a
\* version of its own, a file of react with an "@" in its name, and kit
FromApp(path) == ResolveArg(path, LocalImporter, LocalDir, PluginData(AppPkg, TRUE, Undefined))
React18FromApp == FromApp(React \o At \o V18)
ReactLogoFromApp == FromApp(React \o <<"/", "logo", "@", "2x", ".", "png">>)
KitImport(dir) == FromApp(KitAt \o Slash \o dir)

\* the imports of one build, resolved in any order and any number of times
ReactImports == {ReactPlain, ReactFromApp, ReactUtil, React18Exact}
PkgImports == {PkgLibX, Malformed}
ToolImports == {ToolPlain, LocalFile, LocalAbsolute}
NopeImports == {NopePlain}
EsmImports == {EsmPkgLibX, PkgRelY, PkgLibXMjs}
AppImports == {ReactFromApp, React18FromApp, ReactLogoFromApp}
KitImports == {KitImport(<<"feature">>), KitImport(<<"sub">>), KitImport(<<"hooks">>),
               KitImport(<<"dist", "/", "feature">>)}
KitDirImports == {KitImport(<<"plain">>), KitImport(<<"web">>), KitImport(<<"cjs">>),
                  ResolveArg(Iso, LocalImporter, LocalDir, NoPluginData)}

\* the builds: the imports, how many calls overlap, how often the network
\* departs from the site.  Calls overlap on a network that serves the site;
\* on a network that departs from it they follow one another, and react
\* is imported without the specifier that carries its own version.
Builds ==
    [imports : {ReactImports, PkgImports, ToolImports}, active : {MaxActive}, faults : {0}]
    \cup [imports : {ReactImports \ {React18Exact}, PkgImports, ToolImports, NopeImports},
          active : {1}, faults : {MaxFaults}]
    \cup [imports : {EsmImports, AppImports, KitImports, KitDirImports},
          active : {1}, faults : {0}]

\* the callers of the Fetch Cache on its own
FetchCallers == [imports |-> {}, active |-> NumCalls, faults |-> MaxFaults]

GetRequestArgs ==
    [url : {Cdn(React \o At \o V18 \o Slash \o IndexJs), Cdn(Nope \o At \o Latest)},
     permanent : BOOLEAN]

\* a call has work outstanding until it has returned and the refreshes it
\* left in the background have settled
Active(c) == calls[c].pc \notin {"idle", "done"} \/ \E rq \in net : rq.owner = c

\* calls are numbered in the order in which they start
MayStart(c) ==
    /\ calls[c].pc = "idle"
    /\ \A d \in 1..(c - 1) : calls[d].pc # "idle"
    /\ Cardinality({d \in Calls : Active(d)}) < build.active

\* the paths that completed resolves of the specifier have returned so far
Pinned(path) ==
    {calls[d].result : d \in {e \in Calls : /\ calls[e].op = "resolve"
                                            /\ calls[e].path = path
                                            /\ calls[e].outcome = "path"}}

Apply(w) ==
    /\ CACHE' = w.CACHE
    /\ urlCache' = w.urlCache
    /\ virtualFS' = w.virtualFS
    /\ net' = w.net
    /\ faults' = w.faults
    /\ delivered' = w.delivered

Init ==
    /\ CACHE = EmptyMap
    /\ urlCache = EmptyMap
    /\ virtualFS = EmptyMap
    /\ net = {}
    /\ calls = [c \in Calls |-> IdleCall]
    /\ build \in Builds
    /\ faults = 0
    /\ delivered = {}

\* the Fetch Cache on its own, called by callers other than the plugin
InitFetch ==
    /\ CACHE = EmptyMap
    /\ urlCache = EmptyMap
    /\ virtualFS = EmptyMap
    /\ net = {}
    /\ calls = [c \in Calls |-> IdleCall]
    /\ build = FetchCallers
    /\ faults = 0
    /\ delivered = {}

\* handler c runs up to its next wait and leaves the shared state and its
\* own record as r has them
Return(c, r) == Apply(r.w) /\ calls' = [calls EXCEPT ![c] = r.c]

\* the bundler calls onResolve
StartResolve(c, a) ==
    /\ MayStart(c)
    /\ Return(c, onResolve(World, c,
                           [IdleCall EXCEPT !.op = "resolve", !.path = a.path,
                                            !.importer = a.importer,
                                            !.resolveDir = a.resolveDir,
                                            !.pluginData = a.pluginData,
                                            !.pinned = Pinned(a.path)]))
    /\ UNCHANGED build

\* the arguments of onLoad: a path some resolve has returned, with the
\* pluginData returned with it, or a path of the namespace nothing is stored at
LoadArg(path, pluginData) == [path |-> path, pluginData |-> pluginData]
MissingPath == NodeModules \o <<"/", "missing", ".", "css">>
LoadArgs ==
    {LoadArg(calls[d].result, calls[d].retData) :
        d \in {e \in Calls : calls[e].op = "resolve" /\ calls[e].outcome = "path"}}
    \cup {LoadArg(MissingPath, NoPluginData)}

\* a variant of onLoad that fetches what the store does not hold
onLoad_FetchMissing(w, cid, a) ==
    [w |-> IF Has(w.virtualFS, a.path) THEN w
           ELSE newRequest(w, Request(cid, "load", 0, Cdn(pathname(a.path)), FALSE)),
     loaded |-> Has(w.virtualFS, a.path),
     contents |-> IF Has(w.virtualFS, a.path) THEN w.virtualFS[a.path]
                  ELSE TextBody(Empty),
     loader |-> inferLoader(a.path),
     resolveDir |-> dirname(a.path),
     pluginData |-> a.pluginData]

\* a variant of onLoad that takes the content out of the store
onLoad_Consume(w, cid, a) ==
    [w |-> [w EXCEPT !.virtualFS = [p \in DOMAIN @ \ {a.path} |-> @[p]]],
     loaded |-> Has(w.virtualFS, a.path),
     contents |-> IF Has(w.virtualFS, a.path) THEN w.virtualFS[a.path]
                  ELSE TextBody(Empty),
     loader |-> inferLoader(a.path),
     resolveDir |-> dirname(a.path),
     pluginData |-> a.pluginData]

\* onLoad: contents is virtualFS.get(args.path), undefined when absent
onLoad(w, cid, a) ==
    [w |-> w,
     loaded |-> Has(w.virtualFS, a.path),
     contents |-> IF Has(w.virtualFS, a.path) THEN w.virtualFS[a.path]
                  ELSE TextBody(Empty),
     loader |-> inferLoader(a.path),
     resolveDir |-> dirname(a.path),
     pluginData |-> a.pluginData]

\* the call record of an onLoad that returned r
Loaded(a, r) ==
    [w |-> r.w,
     c |-> [IdleCall EXCEPT !.pc = "done", !.op = "load", !.path = a.path,
                            !.pluginData = a.pluginData,
                            !.outcome = "loaded",
                            !.loaded = r.loaded,
                            !.contents = r.contents,
                            !.loader = r.loader,
                            !.resolveDir = r.resolveDir,
                            !.retData = r.pluginData]]

\* the bundler calls onLoad
Load(c, a) ==
    /\ MayStart(c)
    /\ Return(c, Loaded(a, onLoad(World, c, a)))
    /\ UNCHANGED build

\* lines 188-213: manifest fetch idx of call c has settled as s; the call
\* goes on once all have
ManifestSettled(c, idx, s) ==
    LET c1 == [calls[c] EXCEPT !.cands[idx] = s.cand,
                               !.rootFirst = /\ idx = 1
                                             /\ s.cand.state = "fulfilled"
                                             /\ Len(calls[c].cands) = 2
                                             /\ calls[c].cands[2].state = "fulfilled"]
    IN IF AllSettled(c1.cands) THEN AfterManifests(s.w, c, c1)
       ELSE [w |-> s.w, c |-> c1]

\* a manifest fetch of call c settles
ManifestArrive(c, rq, ans) ==
    /\ rq.owner = c /\ rq.stage = "manifest" /\ rq.awaited
    /\ calls[c].pc = "manifests"
    /\ Return(c, ManifestSettled(c, rq.idx,
                                 packageJsonSettled(newRequestSettle(World, rq, ans),
                                                    calls[c].cands[rq.idx],
                                                    ans.thrown, ans.resp)))
    /\ UNCHANGED build

\* the extension probe's fetch of call c settles
ProbeArrive(c, rq, ans) ==
    /\ rq.owner = c /\ rq.stage = "probe" /\ rq.awaited
    /\ calls[c].pc = "probing"
    /\ Return(c, fetchPkgSettled(newRequestSettle(World, rq, ans), c, calls[c],
                                 ans.thrown, ans.resp))
    /\ UNCHANGED build

\* the place of a request among those its call issues
Order(rq) == (IF rq.stage = "probe" THEN Len(allEndingVariants) ELSE 0) + rq.idx

\* a background refresh settles (newRequest(request, false)); nobody awaits
\* it.  The refreshes one call has issued settle in the order of their issue:
\* each writes the entry of its own URL only.
BackgroundArrive(rq, ans) ==
    /\ ~rq.awaited
    /\ \A other \in net :
          (~other.awaited /\ other.owner = rq.owner) => Order(rq) <= Order(other)
    /\ Apply(newRequestSettle(World, rq, ans))
    /\ UNCHANGED <<calls, build>>

\* some caller calls getRequest(url, permanent)
StartGetRequest(c, a) ==
    /\ MayStart(c)
    /\ LET c0 == [IdleCall EXCEPT !.op = "getRequest", !.path = a.url,
                                  !.permanent = a.permanent]
           g == getRequest(World, c, "get", 0, a.url, a.permanent)
       IN /\ Apply(g.w)
          /\ calls' = [calls EXCEPT ![c] =
                 IF g.pending THEN [c0 EXCEPT !.pc = "fetching"]
                 ELSE [c0 EXCEPT !.pc = "done", !.outcome = "response",
                                 !.hit = TRUE, !.response = g.response]]
    /\ UNCHANGED build

\* the awaited fetch of a getRequest call settles
GetRequestArrive(c, rq, ans) ==
    /\ rq.owner = c /\ rq.stage = "get" /\ rq.awaited
    /\ calls[c].pc = "fetching"
    /\ Apply(newRequestSettle(World, rq, ans))
    /\ calls' = [calls EXCEPT ![c] =
           IF ans.thrown THEN Throw(@, NetworkError(rq.url))
           ELSE [@ EXCEPT !.pc = "done", !.outcome = "response",
                          !.response = ans.resp]]
    /\ UNCHANGED build

Next ==
    \/ \E c \in Calls, a \in build.imports : StartResolve(c, a)
    \/ \E rq \in {r \in net : r.awaited /\ r.stage = "manifest"} :
          \E ans \in Answers(rq.url, faults < build.faults) :
              ManifestArrive(rq.owner, rq, ans)
    \/ \E rq \in {r \in net : r.awaited /\ r.stage = "probe"} :
          \E ans \in Answers(rq.url, faults < build.faults) :
              ProbeArrive(rq.owner, rq, ans)
    \/ \E rq \in {r \in net : ~r.awaited} :
          \E ans \in Answers(rq.url, faults < build.faults) : BackgroundArrive(rq, ans)

NextFetch ==
    \/ \E c \in Calls, a \in GetRequestArgs : StartGetRequest(c, a)
    \/ \E rq \in {r \in net : r.awaited /\ r.stage = "get"} :
          \E ans \in Answers(rq.url, faults < build.faults) :
              GetRequestArrive(rq.owner, rq, ans)
    \/ \E rq \in {r \in net : ~r.awaited} :
          \E ans \in Answers(rq.url, faults < build.faults) : BackgroundArrive(rq, ans)

\* the URL helpers and the loader table on their own: one specifier or path
\* and one default CDN, handed to the helpers by callers other than the plugin
SchemePrefixes == {CDNSchemes[i].prefix : i \in 1..Len(CDNSchemes)}
RecognizedHosts == {KnownOrigins[i] : i \in 1..Len(KnownOrigins)}
UnknownHost == Https \o <<"evil", ".", "example">>
DefaultCDNs == RecognizedHosts \cup {DEFAULT_CDN_HOST \o Slash}

LoaderExtensions ==
    {"js", "ts", "mjs", "cjs", "mts", "cts", "jsx", "tsx", "css", "scss", "json",
     "png", "jpeg", "ttf", "svg", "html", "txt", "wasm", "md"}

ImportStrs ==
    {React, React \o At \o V18 \o Slash \o IndexJs, <<".", "/", "util">>,
     <<"/", "utils">>, UnknownHost \o <<"/", "x", ".", "js">>}
    \cup {prefix \o React : prefix \in SchemePrefixes}
    \cup {host \o Slash \o React : host \in RecognizedHosts}

VirtualPaths ==
    {NodeModules \o <<"/", "pkg", "/", "file", ".", e>> : e \in LoaderExtensions}
    \cup {NodeModules \o <<"/", "pkg", "/", "file">>, ReactDir,
          NodeModules \o <<"/", ".", "config">>}

UtilCallers ==
    [imports : {{}}, active : {NumCalls}, faults : {0},
     importStr : ImportStrs \cup VirtualPaths, cdn : DefaultCDNs]

InitUtils ==
    /\ CACHE = EmptyMap
    /\ urlCache = EmptyMap
    /\ virtualFS = EmptyMap
    /\ net = {}
    /\ calls = [c \in Calls |-> IdleCall]
    /\ build \in UtilCallers
    /\ faults = 0
    /\ delivered = {}

\* some caller calls getCDNOrigin(importStr, cdn)
CallGetCDNOrigin(c) ==
    /\ MayStart(c)
    /\ calls' = [calls EXCEPT ![c] =
           [IdleCall EXCEPT !.pc = "done", !.op = "getCDNOrigin",
                            !.path = build.importStr, !.outcome = "value",
                            !.origin = getCDNOrigin(build.importStr, build.cdn)]]
    /\ UNCHANGED <<CACHE, urlCache, virtualFS, net, build, faults, delivered>>

\* some caller calls getCDNUrl(importStr, cdn)
CallGetCDNUrl(c) ==
    /\ MayStart(c)
    /\ calls' = [calls EXCEPT ![c] =
           [IdleCall EXCEPT !.pc = "done", !.op = "getCDNUrl",
                            !.path = build.importStr, !.outcome = "value",
                            !.cdnUrl = getCDNUrl(build.importStr, build.cdn)]]
    /\ UNCHANGED <<CACHE, urlCache, virtualFS, net, build, faults, delivered>>

NextUtils ==
    \/ \E c \in Calls : CallGetCDNOrigin(c)
    \/ \E c \in Calls : CallGetCDNUrl(c)
    \/ \E c \in Calls : Load(c, LoadArg(build.importStr, NoPluginData))

\* the plugin's handlers under the bundler's calls
Spec == Init /\ [][Next]_vars

\* the Fetch Cache under direct calls of getRequest
SpecFetch == InitFetch /\ [][NextFetch]_vars

\* the plugin's two handlers under the bundler's calls: builds that serve
\* the site, with onLoad called for paths onResolve has returned
LoadBuilds == [imports : {ReactImports, PkgImports}, active : {MaxActive}, faults : {0}]

InitLoad ==
    /\ CACHE = EmptyMap
    /\ urlCache = EmptyMap
    /\ virtualFS = EmptyMap
    /\ net = {}
    /\ calls = [c \in Calls |-> IdleCall]
    /\ build \in LoadBuilds
    /\ faults = 0
    /\ delivered = {}

NextLoad ==
    \/ \E c \in Calls, a \in build.imports : StartResolve(c, a)
    \/ \E c \in Calls, a \in LoadArgs : Load(c, a)
    \/ \E rq \in {r \in net : r.awaited /\ r.stage = "manifest"} :
          \E ans \in Answers(rq.url, faults < build.faults) :
              ManifestArrive(rq.owner, rq, ans)
    \/ \E rq \in {r \in net : r.awaited /\ r.stage = "probe"} :
          \E ans \in Answers(rq.url, faults < build.faults) :
              ProbeArrive(rq.owner, rq, ans)
    \/ \E rq \in {r \in net : ~r.awaited} :
          \E ans \in Answers(rq.url, faults < build.faults) : BackgroundArrive(rq, ans)

SpecLoad == InitLoad /\ [][NextLoad]_vars

\* the URL helpers and onLoad under direct calls
SpecUtils == InitUtils /\ [][NextUtils]_vars

----------------------------------------------------------------------------
(***************************************************************************)
(* The claims.                                                             *)
(***************************************************************************)

\* C1: once a resolve of a bare specifier S has returned the virtual path P,
\* every resolve of S that starts later returns P, whatever ancestor
\* manifest it carries, and is answered from the specifier-to-path index
\* (it fetches no manifest).
PinnedPathReturned ==
    \A c \in Calls :
        ( /\ calls[c].op = "resolve" /\ isBareImport(calls[c].path)
          /\ calls[c].pc = "done" /\ calls[c].pinned # {} )
        => /\ calls[c].outcome = "path"
           /\ calls[c].indexed
           /\ \A P \in calls[c].pinned : calls[c].result = P

\* a resolve of S that started after another resolve of S had returned
LaterResolveReturned ==
    \E c \in Calls :
        /\ calls[c].op = "resolve" /\ isBareImport(calls[c].path)
        /\ calls[c].pc = "done" /\ calls[c].pinned # {} /\ calls[c].indexed

\* C2: getRequest(url, TRUE) on a URL that is in the Fetch Cache returns the
\* cached response in the same step and issues no network request, awaited
\* or in the background; the cache is left as it was.
PermanentHitIssuesNoRequest ==
    [][\A c \in Calls :
         ( /\ calls[c].pc = "idle" /\ calls'[c].op = "getRequest"
           /\ calls'[c].permanent /\ Has(CACHE, calls'[c].path) )
         => /\ net' = net
            /\ CACHE' = CACHE
            /\ calls'[c].pc = "done" /\ calls'[c].outcome = "response"
            /\ calls'[c].response = CACHE[calls'[c].path]]_vars

\* a permanent getRequest was answered from the cache
PermanentHit ==
    \E c \in Calls :
        /\ calls[c].op = "getRequest" /\ calls[c].permanent
        /\ calls[c].pc = "done" /\ calls[c].hit

\* C3: getRequest(url, FALSE) on a URL that is in the Fetch Cache returns,
\* in the same step, the response cached at that moment, and starts exactly
\* one background fetch of the URL; when a background fetch produces a
\* response, that response becomes the cache entry of its URL (which is what
\* the next getRequest returns).
StaleWhileRevalidate ==
    [][ /\ \A c \in Calls :
             ( /\ calls[c].pc = "idle" /\ calls'[c].op = "getRequest"
               /\ ~calls'[c].permanent /\ Has(CACHE, calls'[c].path) )
             => /\ calls'[c].pc = "done" /\ calls'[c].outcome = "response"
                /\ calls'[c].response = CACHE[calls'[c].path]
                /\ CACHE' = CACHE
                /\ \E rq \in net' \ net :
                      /\ net' = net \cup {rq}
                      /\ rq.url = calls'[c].path /\ ~rq.awaited
        /\ \A rq \in net : \A ans \in Answers(rq.url, TRUE) :
             (BackgroundArrive(rq, ans) /\ ~ans.thrown)
             => /\ Has(CACHE', rq.url) /\ CACHE'[rq.url] = ans.resp
                /\ \A u \in DOMAIN CACHE : u # rq.url => CACHE'[u] = CACHE[u]
      ]_vars

\* a call was answered from the cache, and the refresh it started has since
\* replaced the entry by another response
RefreshReplacedEntry ==
    \E c \in Calls :
        /\ calls[c].op = "getRequest" /\ ~calls[c].permanent
        /\ calls[c].pc = "done" /\ calls[c].hit
        /\ ~\E rq \in net : rq.owner = c
        /\ CACHE[calls[c].path] # calls[c].response

\* C4: on a cache miss getRequest issues exactly one network request, which
\* it awaits; the response of that request is stored in the Fetch Cache
\* under the URL and returned to the caller, and once the call has returned
\* the cache holds an entry for the URL.
MissFetchesOnceAndStores ==
    /\ [][\A c \in Calls :
            /\ ( /\ calls[c].pc = "idle" /\ calls'[c].op = "getRequest"
                 /\ ~Has(CACHE, calls'[c].path) )
               => /\ calls'[c].pc = "fetching"
                  /\ CACHE' = CACHE
                  /\ \E rq \in net' \ net :
                        /\ net' = net \cup {rq}
                        /\ rq.url = calls'[c].path /\ rq.owner = c /\ rq.awaited
            /\ ( /\ calls[c].pc = "fetching" /\ calls'[c].pc = "done"
                 /\ calls'[c].outcome = "response" )
               => /\ net' \subseteq net
                  /\ Has(CACHE', calls[c].path)
                  /\ CACHE'[calls[c].path] = calls'[c].response
                  /\ [req |-> calls[c].path, resp |-> calls'[c].response] \in delivered'
         ]_vars
    /\ [](\A c \in Calls :
            (calls[c].op = "getRequest" /\ calls[c].outcome = "response")
            => Has(CACHE, calls[c].path))

\* a call that missed the cache has returned the response of its fetch
MissReturned ==
    \E c \in Calls :
        /\ calls[c].op = "getRequest" /\ calls[c].pc = "done" /\ ~calls[c].hit
        /\ calls[c].outcome = "response"
        /\ Has(CACHE, calls[c].path) /\ CACHE[calls[c].path] = calls[c].response

\* C5: the Fetch Cache does not coalesce: every getRequest that missed the
\* cache has a fetch of its own in flight while it waits, also when another
\* fetch of the same URL is in flight, and it ends with the response its own
\* fetch produced (or with the network error that rejected that fetch).
NoCoalescing ==
    \A c \in Calls :
        calls[c].op = "getRequest"
        => /\ calls[c].pc = "fetching"
              => \E rq \in net :
                    rq.owner = c /\ rq.awaited /\ rq.url = calls[c].path
           /\ (calls[c].pc = "done" /\ ~calls[c].hit)
              => \/ /\ calls[c].outcome = "response"
                    /\ [req |-> calls[c].path, resp |-> calls[c].response] \in delivered
                 \/ /\ calls[c].outcome = "throw"
                    /\ calls[c].error = NetworkError(calls[c].path)

\* two calls of the same URL both missed the cache (so their fetches were in
\* flight together) and both have returned a response
OverlappingMissesReturned ==
    \E c, d \in Calls :
        /\ c # d
        /\ calls[c].op = "getRequest" /\ calls[d].op = "getRequest"
        /\ calls[c].path = calls[d].path
        /\ ~calls[c].hit /\ ~calls[d].hit
        /\ calls[c].outcome = "response" /\ calls[d].outcome = "response"

\* C6 (as stated): every entry of the Virtual Content Store is the body of
\* a fetch that produced an ok response whose final URL gives the entry's
\* path; nothing is stored for a fetch that threw, produced a non-ok
\* response or has not produced its response yet.
StoreHoldsCompleteBodies ==
    \A p \in DOMAIN virtualFS :
        \E d \in delivered :
            /\ d.resp.ok
            /\ NodeModules \o pathname(d.resp.url) = p
            /\ virtualFS[p] = d.resp.body

\* C6 (amended): every entry of the Virtual Content Store is the body of a
\* fetch that produced an ok response whose final URL gives the entry's
\* path, or, for a manifest, the JSON text JSON.stringify writes for the
\* value of that body; nothing is stored for a fetch that threw, produced a
\* non-ok response or has not produced its response yet.
StoreHoldsFetchedBodies ==
    \A p \in DOMAIN virtualFS :
        \E d \in delivered :
            /\ d.resp.ok
            /\ NodeModules \o pathname(d.resp.url) = p
            /\ \/ virtualFS[p] = d.resp.body
               \/ /\ JSONparseable(d.resp.body)
                  /\ virtualFS[p] = JSONstringify(JSONparse(d.resp.body))

\* the store holds a manifest written anew and the body of a content file
StoreHoldsManifestAndContent ==
    /\ \E p \in DOMAIN virtualFS :
          /\ JSONparseable(virtualFS[p])
          /\ \E d \in delivered :
                /\ d.resp.ok /\ NodeModules \o pathname(d.resp.url) = p
                /\ virtualFS[p] = JSONstringify(JSONparse(d.resp.body))
                /\ virtualFS[p] # d.resp.body
    /\ \E q \in DOMAIN virtualFS : ~JSONparseable(virtualFS[q])
    /\ \E c \in Calls : calls[c].op = "resolve" /\ calls[c].outcome = "throw"

\* C7: a resolve call throws only because the parser rejected the specifier
\* or because no extension variant could be fetched (every variant was
\* attempted and none of the fetches succeeded); no other failure makes it
\* throw.
OnlyParserOrProbeFailures ==
    \A c \in Calls :
        (calls[c].op = "resolve" /\ calls[c].outcome = "throw")
        => \/ calls[c].error = MalformedSpecifier
           \/ /\ ~calls[c].fetched.ok
              /\ Len(calls[c].attempts) = Len(allEndingVariants)
              /\ calls[c].error.kind \in {"network", "http"}

VersionInEffect(c) ==
    LET argPath == getCDNUrl(calls[c].path, DEFAULT_CDN_HOST).path
        fromSpecifier == parsePackageName(argPath)
        oldPkg == calls[c].pluginData.pkg
        listed(deps) == fromSpecifier.name \in Keys(deps)
    IN IF HasVersionSeparator(argPath) THEN fromSpecifier.version
       ELSE IF listed(oldPkg.dependencies) THEN Lookup(oldPkg.dependencies, fromSpecifier.name)
       ELSE IF listed(oldPkg.peerDependencies)
            THEN Lookup(oldPkg.peerDependencies, fromSpecifier.name)
       ELSE IF listed(oldPkg.devDependencies)
            THEN Lookup(oldPkg.devDependencies, fromSpecifier.name)
       ELSE fromSpecifier.version

MalformedFailsAlone ==
    [][\A c \in Calls :
         ( /\ calls[c].pc = "idle" /\ calls'[c].op = "resolve"
           /\ isBareImport(calls'[c].path)
           /\ ~Has(urlCache, getCDNUrl(calls'[c].path, DEFAULT_CDN_HOST).path)
           /\ ~parsePackageName(getCDNUrl(calls'[c].path, DEFAULT_CDN_HOST).path).ok )
         => /\ calls'[c].pc = "done" /\ calls'[c].outcome = "throw"
            /\ calls'[c].error = MalformedSpecifier
            /\ net' = net /\ CACHE' = CACHE
            /\ urlCache' = urlCache /\ virtualFS' = virtualFS
            /\ \A d \in Calls \ {c} : calls'[d] = calls[d]]_vars

\* a malformed specifier was rejected, between two resolves that returned
RejectedAmongOthers ==
    \E c, d, e \in Calls :
        /\ d < c /\ c < e
        /\ calls[c].op = "resolve" /\ calls[c].error = MalformedSpecifier
        /\ calls[d].outcome = "path" /\ calls[e].outcome = "path"

\* C10: determineExtension attempts the variants one after another in the
\* order of the list, the base URL first and none twice; at the first
\* attempt whose fetch succeeds it stops and returns the final URL of that
\* attempt, its content and the extension of that URL.
ProbeStopsAtFirstSuccess ==
    \A c \in Calls :
        (calls[c].op = "resolve" /\ calls[c].attempts # <<>>)
        => /\ Len(calls[c].attempts) <= Len(allEndingVariants)
           /\ \A k \in 1..Len(calls[c].attempts) :
                 calls[c].attempts[k] = calls[c].base \o allEndingVariants[k]
           /\ \A j, k \in 1..Len(calls[c].attempts) :
                 j # k => calls[c].attempts[j] # calls[c].attempts[k]
           /\ calls[c].fetched.ok
              => /\ calls[c].fetched.at = Len(calls[c].attempts)
                 /\ calls[c].pc = "done"
                 /\ calls[c].probed =
                       [ok |-> TRUE, url |-> calls[c].fetched.url,
                        content |-> calls[c].fetched.content,
                        ext |-> extname(calls[c].fetched.url)]

(***************************************************************************)
(* C11: when every extension variant failed, determineExtension throws the *)
(* error of the first variant it tried, the unmodified base URL, and not   *)
(* the error of a later attempt.                                           *)
(***************************************************************************)
AllVariantsFailed(c) ==
    /\ calls[c].op = "resolve"
    /\ calls[c].pc = "done"
    /\ Len(calls[c].attempts) = Len(allEndingVariants)
    /\ ~calls[c].fetched.ok

FirstVariantErrorThrown ==
    \A c \in Calls :
        AllVariantsFailed(c) =>
            /\ calls[c].outcome = "throw"
            /\ calls[c].error = calls[c].firstCaught
            /\ calls[c].attempts[1] = calls[c].base
            /\ calls[c].error.url = calls[c].base

\* every variant failed, the first on the network and the last, with no
\* fault left, by the answer of the site
EveryVariantFailed ==
    \E c \in Calls :
        /\ AllVariantsFailed(c)
        /\ calls[c].firstCaught = NetworkError(calls[c].base)
        /\ calls[c].error.kind = "network"
        /\ faults = MaxFaults

(***************************************************************************)
(* C12: load(virtualPath) returns the content stored in the Virtual        *)
(* Content Store under exactly that path, undefined when there is none,    *)
(* issues no network request and leaves the Fetch Cache, the index and the *)
(* store unchanged.                                                        *)
(***************************************************************************)
LoadReadsStoreOnly ==
    [][\A c \in Calls :
          (calls[c].pc = "idle" /\ calls'[c].op = "load") =>
              /\ calls'[c].pc = "done"
              /\ calls'[c].loaded = (calls'[c].path \in DOMAIN virtualFS)
              /\ calls'[c].loaded => calls'[c].contents = virtualFS[calls'[c].path]
              /\ net' = net
              /\ CACHE' = CACHE
              /\ urlCache' = urlCache
              /\ virtualFS' = virtualFS]_vars

\* one load returned the content stored at its path and another, of a path
\* nothing is stored at, returned undefined
LoadedStoredAndMissing ==
    \E c, d \in Calls :
        /\ calls[c].op = "load" /\ calls[c].loaded
        /\ calls[c].contents = virtualFS[calls[c].path]
        /\ calls[d].op = "load" /\ ~calls[d].loaded

(***************************************************************************)
(* C13: a relative specifier whose importer lies under /node_modules is    *)
(* fetched from the CDN origin the importing package itself was fetched    *)
(* from, not from the default CDN.  Call d resolved the importer before    *)
(* call c started; every URL c hands to fetchPkg is on the origin of the   *)
(* URL d fetched the importer from.                                        *)
(***************************************************************************)
RelativeFollowsImporterOrigin ==
    \A c, d \in Calls :
        (/\ d < c
         /\ calls[c].op = "resolve" /\ calls[d].op = "resolve"
         /\ isRelative(calls[c].path) /\ isNodeModule(calls[c].importer)
         /\ calls[d].probed.ok /\ calls[d].result = calls[c].importer)
        => \A k \in 1..Len(calls[c].attempts) :
               UrlOrigin(calls[c].attempts[k]) = UrlOrigin(calls[d].probed.url)

(***************************************************************************)
(* C14: the virtual path under which resolved content is stored is the     *)
(* fixed root plus the path of the resolved CDN URL with the version       *)
(* segment removed; resolving "react" against the manifest of react 18.2.0 *)
(* with main index.js stores the body under a path ending /react/index.js. *)
(***************************************************************************)
\* a URL path without its "@version": the tokens from "@" up to the next "/"
WithoutVersion(p) ==
    LET k == IndexFrom(p, "@", 1)
    IN IF k = 0 THEN p ELSE Take(p, k - 1) \o Drop(p, RunEnd(p, k, {"/"}))

StoredWithoutVersion ==
    \A c \in Calls :
        (/\ calls[c].op = "resolve" /\ calls[c].outcome = "path"
         /\ isBareImport(calls[c].path) /\ calls[c].probed.ok)
        => /\ calls[c].result = NodeModules \o WithoutVersion(pathname(calls[c].probed.url))
           /\ calls[c].result \in DOMAIN virtualFS
           /\ (calls[c].path = React /\ calls[c].retData.pkg.version = V18)
                  => EndsWith(calls[c].result, Slash \o React \o Slash \o IndexJs)

(***************************************************************************)
(* C15: for every specifier with a CDN scheme prefix (skypack:, esm:,      *)
(* esm.sh:, unpkg:, jsdelivr:, esm.run:, jsdelivr.gh:, deno:, github:)     *)
(* getCDNOrigin returns the origin of that scheme, ending in "/", whatever *)
(* default CDN is supplied; "esm:react" yields https://cdn.esm.sh/.        *)
(***************************************************************************)
\* the origin the specification gives for the scheme a specifier starts with
SchemeOrigin(importStr) ==
    IF StartsWith(importStr, <<"skypack", ":">>) THEN Https \o <<"cdn", ".", "skypack", ".", "dev", "/">>
    ELSE IF StartsWith(importStr, <<"esm", ":">>) \/ StartsWith(importStr, <<"esm", ".", "sh", ":">>)
    THEN Https \o <<"cdn", ".", "esm", ".", "sh", "/">>
    ELSE IF StartsWith(importStr, <<"unpkg", ":">>) THEN Https \o <<"unpkg", ".", "com", "/">>
    ELSE IF StartsWith(importStr, <<"jsdelivr", ":">>) \/ StartsWith(importStr, <<"esm", ".", "run", ":">>)
    THEN Https \o <<"cdn", ".", "jsdelivr", ".", "net", "/", "npm", "/">>
    ELSE IF StartsWith(importStr, <<"jsdelivr", ".", "gh", ":">>)
    THEN Https \o <<"cdn", ".", "jsdelivr", ".", "net", "/", "gh", "/">>
    ELSE IF StartsWith(importStr, <<"deno", ":">>) THEN Https \o <<"deno", ".", "land", "/", "x", "/">>
    ELSE IF StartsWith(importStr, <<"github", ":">>)
    THEN Https \o <<"raw", ".", "githubusercontent", ".", "com", "/">>
    ELSE Empty

SchemePrefixDecidesOrigin ==
    \A c \in Calls :
        (calls[c].op = "getCDNOrigin" /\ SchemeOrigin(calls[c].path) # Empty)
        => /\ calls[c].origin = SchemeOrigin(calls[c].path)
           /\ calls[c].origin[Len(calls[c].origin)] = "/"

\* "esm:react" with another CDN supplied as the default yields cdn.esm.sh
EsmSchemeOverSuppliedDefault ==
    \E c \in Calls :
        /\ calls[c].op = "getCDNOrigin"
        /\ calls[c].path = <<"esm", ":", "react">>
        /\ build.cdn = Https \o <<"cdn", ".", "skypack", ".", "dev">>
        /\ calls[c].origin = Https \o <<"cdn", ".", "esm", ".", "sh", "/">>

(***************************************************************************)
(* C16: a specifier written as a full URL on a known CDN origin (such as   *)
(* https://cdn.skypack.dev/react or https://cdn.jsdelivr.net/npm/react)    *)
(* resolves to that same origin rather than to the default CDN.            *)
(***************************************************************************)
KnownOriginKept ==
    \A c \in Calls : \A host \in RecognizedHosts :
        (calls[c].op = "getCDNUrl" /\ StartsWith(calls[c].path, host \o Slash))
        => /\ calls[c].cdnUrl.origin = host \o Slash
           /\ StartsWith(calls[c].cdnUrl.url, host \o Slash)

(***************************************************************************)
(* C17: for every specifier and every default CDN taken from the           *)
(* recognized hosts, the URL built by getCDNUrl has an origin that is one  *)
(* of the recognized CDN hosts or the default CDN host, also for a         *)
(* specifier that is itself an absolute URL on an unknown host.            *)
(***************************************************************************)
UrlOnRecognizedOrDefaultHost ==
    \A c \in Calls :
        calls[c].op = "getCDNUrl"
        => UrlOrigin(calls[c].cdnUrl.url)
               \in {UrlOrigin(host) : host \in RecognizedHosts \cup {build.cdn}}

(***************************************************************************)
(* C18: the loader hint returned by load depends only on the extension of  *)
(* the virtual path: .js .ts .mjs .cjs .mts .cts give ts, .jsx .tsx give   *)
(* tsx, .css .scss give css, .json gives json, .png .jpeg .ttf give        *)
(* dataurl, .svg .html .txt give text, .wasm gives file, any other         *)
(* non-empty extension gives text, and a path without extension gives ts.  *)
(***************************************************************************)
\* the loader the specification gives for an extension ("" for none)
LoaderOfExtension(ext) ==
    IF ext = Empty THEN "ts"
    ELSE IF Len(ext) = 2 /\ ext[2] \in {"js", "ts", "mjs", "cjs", "mts", "cts"} THEN "ts"
    ELSE IF Len(ext) = 2 /\ ext[2] \in {"jsx", "tsx"} THEN "tsx"
    ELSE IF Len(ext) = 2 /\ ext[2] \in {"css", "scss"} THEN "css"
    ELSE IF Len(ext) = 2 /\ ext[2] = "json" THEN "json"
    ELSE IF Len(ext) = 2 /\ ext[2] \in {"png", "jpeg", "ttf"} THEN "dataurl"
    ELSE IF Len(ext) = 2 /\ ext[2] \in {"svg", "html", "txt"} THEN "text"
    ELSE IF Len(ext) = 2 /\ ext[2] = "wasm" THEN "file"
    ELSE "text"

LoaderFollowsExtension ==
    \A c \in Calls :
        calls[c].op = "load" => calls[c].loader = LoaderOfExtension(extname(calls[c].path))

\* a load of a .mjs path returned the ts loader
MjsLoadedAsTs ==
    \E c \in Calls :
        /\ calls[c].op = "load"
        /\ EndsWith(calls[c].path, <<"file", ".", "mjs">>)
        /\ calls[c].loader = "ts"

(***************************************************************************)
(* C19: once an extension-probe attempt for a URL u has failed, u is       *)
(* remembered for the rest of the process: a later probe whose variant     *)
(* list reaches u issues no network request for u.                         *)
(***************************************************************************)
\* the URLs whose probe attempt has failed in call d: every attempt but
\* the one in flight or the one that succeeded
FailedProbeUrls(d) ==
    LET n == Len(calls[d].attempts)
        failed == IF n > 0 /\ (calls[d].pc = "probing" \/ calls[d].fetched.ok)
                  THEN n - 1 ELSE n
    IN {calls[d].attempts[k] : k \in 1..failed}

FailedProbeNotRequestedAgain ==
    [][\A rq \in net' \ net :
          rq.stage = "probe" => \A d \in Calls : rq.url \notin FailedProbeUrls(d)]_vars

(***************************************************************************)
(* C20: once a manifest (package.json) URL has failed to fetch in some     *)
(* resolve call, no later resolve call in the process issues a network     *)
(* request for that same manifest URL.                                     *)
(***************************************************************************)
\* the manifest URLs whose fetch has failed in call d
FailedManifestUrls(d) ==
    {calls[d].cands[k].href :
        k \in {j \in 1..Len(calls[d].cands) : calls[d].cands[j].state = "rejected"}}

FailedManifestNotRequestedAgain ==
    [][\A rq \in net' \ net :
          rq.stage = "manifest"
          => \A d \in Calls \ {rq.owner} : rq.url \notin FailedManifestUrls(d)]_vars

(***************************************************************************)
(* C21: the manifest (package.json) fetches of resolve use the permanent   *)
(* cache policy: when the manifest URL is already in the Fetch Cache,      *)
(* resolve issues no network request for it, not even a background         *)
(* refresh.                                                                *)
(***************************************************************************)
CachedManifestNotRequested ==
    [][\A rq \in net' \ net : rq.stage = "manifest" => ~Has(CACHE, rq.url)]_vars

(***************************************************************************)
(* C22: when both the subpath-local manifest fetch and the package-root    *)
(* manifest fetch succeed, the subpath-local manifest is the one used for  *)
(* entry resolution, whichever of the two fetches completes first; the     *)
(* package-root manifest is used only when the subpath-local one failed    *)
(* or is not a candidate.                                                  *)
(***************************************************************************)
\* the call has gone past its manifest fetches
PastManifests(c) ==
    /\ calls[c].op = "resolve" /\ calls[c].cands # <<>>
    /\ calls[c].pc \in {"probing", "done"} /\ ~calls[c].indexed

\* the URL the entry file is looked for when manifest `pkg` is the one used
EntryUrlWith(c, cand) ==
    LET parsed == calls[c].parsed
        directory == IF extname(parsed.path) = Empty THEN parsed.path ELSE Empty
        entry == EntryPoint(parsed, directory, cand.pkg, cand.isSubpathPackageJson)
    IN getCDNUrl(entry.name \o entry.version \o entry.subpath, calls[c].origin).url

\* the manifest candidate the claim says is used: the subpath-local one
\* when its fetch succeeded, else the package-root one when that succeeded
ManifestToUse(c) ==
    LET cands == calls[c].cands
        local == {k \in 1..Len(cands) : /\ cands[k].isSubpathPackageJson
                                        /\ cands[k].state = "fulfilled"}
        root == {k \in 1..Len(cands) : /\ ~cands[k].isSubpathPackageJson
                                       /\ cands[k].state = "fulfilled"}
    IN IF local # {} THEN local ELSE root

SubpathLocalManifestPreferred ==
    \A c \in Calls :
        PastManifests(c)
        => \A k \in ManifestToUse(c) :
               /\ calls[c].base = EntryUrlWith(c, calls[c].cands[k])
               /\ calls[c].retData.pkg
                      = PatchPeerDependencies(calls[c].cands[k].pkg, calls[c].pluginData.pkg)

\* both fetches succeeded, the package-root one first, and the entry is the
\* one of the subpath-local manifest, which is not the one the package-root
\* manifest gives
LocalUsedThoughRootCameFirst ==
    \E c \in Calls :
        /\ PastManifests(c) /\ calls[c].rootFirst
        /\ calls[c].cands[1].isSubpathPackageJson
        /\ calls[c].base = EntryUrlWith(c, calls[c].cands[1])
        /\ calls[c].base # EntryUrlWith(c, calls[c].cands[2])

(***************************************************************************)
(* C23: within one resolve call the stages happen in this order: every     *)
(* manifest fetch has settled before entry-point resolution starts,        *)
(* entry-point resolution has finished before the first extension-probe    *)
(* fetch is issued, and no write to the Virtual Content Store happens      *)
(* before extension probing has succeeded.                                 *)
(***************************************************************************)
\* the call resolves a bare specifier that the parser accepted
BareCall(c) == calls[c].op = "resolve" /\ calls[c].cands # <<>>

\* no manifest fetch of the call is outstanding
ManifestsSettled(c) ==
    /\ \A k \in 1..Len(calls[c].cands) : calls[c].cands[k].state # "pending"
    /\ ~\E rq \in net : rq.owner = c /\ rq.stage = "manifest" /\ rq.awaited

\* the entry point is resolved only with every manifest fetch settled, and
\* a probe is in flight only with the entry point resolved
ManifestsThenEntryThenProbe ==
    \A c \in Calls :
        BareCall(c)
        => /\ calls[c].base # Empty => ManifestsSettled(c)
           /\ (\E rq \in net : rq.owner = c /\ rq.stage = "probe")
                  => calls[c].base # Empty /\ ManifestsSettled(c)
           /\ calls[c].attempts # <<>> => calls[c].attempts[1] = calls[c].base

\* the paths of the Virtual Content Store that a step writes
Written == {p \in DOMAIN virtualFS' : ~Has(virtualFS, p) \/ virtualFS'[p] # virtualFS[p]}

\* the step ends the extension probing of a call with success, and p is the
\* path the call returns
ProbingSucceededFor(p) ==
    \E c \in Calls :
        /\ calls[c].pc = "probing" \/ calls[c].pc = "idle" \/ calls[c].pc = "manifests"
        /\ calls'[c].pc = "done" /\ calls'[c].outcome = "path" /\ ~calls'[c].indexed
        /\ calls'[c].result = p

\* the original statement: a step writes the store only as it ends the
\* probing of a call with success
StoreWrittenAfterProbingOnly ==
    [][\A p \in Written : ProbingSucceededFor(p)]_vars

\* C23 (amended): the stages are ordered as stated, and the content of an
\* entry file is written only when extension probing has succeeded; the
\* text of a manifest is written earlier, when its fetch succeeds
StagesInOrder ==
    /\ []ManifestsThenEntryThenProbe
    /\ [][\A p \in Written :
             \/ ProbingSucceededFor(p)
             \/ /\ virtualFS'[p].json
                /\ \E c \in Calls :
                      /\ BareCall(c)' /\ calls[c].base = Empty
                      /\ \E k \in 1..Len(calls'[c].cands) :
                            /\ calls'[c].cands[k].state = "fulfilled"
                            /\ virtualFS'[p] = JSONstringify(calls'[c].cands[k].pkg)]_vars

\* a call whose two manifest fetches settled, the second after the first,
\* that resolved its entry point, probed for it and stored the content
AllStagesPassed ==
    \E c \in Calls :
        /\ BareCall(c) /\ calls[c].rootFirst
        /\ calls[c].pc = "done" /\ calls[c].outcome = "path"
        /\ calls[c].attempts # <<>>
        /\ Has(virtualFS, calls[c].result)

(***************************************************************************)
(* C24: no operation ever removes a key from the Fetch Cache, the          *)
(* failed-URL sets, the Virtual Content Store or the specifier-to-path     *)
(* index: across any interleaving of resolve and load calls their key sets *)
(* only grow, and an existing key's value is only ever replaced as a       *)
(* whole.  (The handlers keep no failed-URL set; the three maps are all    *)
(* the process-wide state there is.)                                       *)
(***************************************************************************)
\* map n has every key of map m
KeysKept(m, n) == \A k \in DOMAIN m : Has(n, k)

\* no step removes a key; a Fetch Cache entry that changes becomes a
\* response the network delivered, an index entry that changes names a path
\* the store holds
KeysOnlyGrow ==
    [][/\ KeysKept(CACHE, CACHE')
       /\ KeysKept(virtualFS, virtualFS')
       /\ KeysKept(urlCache, urlCache')
       /\ \A u \in DOMAIN CACHE :
             CACHE'[u] # CACHE[u] => [req |-> u, resp |-> CACHE'[u]] \in delivered'
       /\ \A k \in DOMAIN urlCache :
             urlCache'[k] # urlCache[k] => Has(virtualFS', urlCache'[k].path)]_vars

\* two overlapping resolves of one specifier both fetched and stored its
\* entry, the later one writing the keys the earlier one had written, and a
\* load has read the store
KeysWrittenTwiceAndLoaded ==
    /\ \E c, d \in Calls :
          /\ c # d
          /\ calls[c].op = "resolve" /\ calls[d].op = "resolve"
          /\ calls[c].outcome = "path" /\ calls[d].outcome = "path"
          /\ ~calls[c].indexed /\ ~calls[d].indexed
          /\ calls[c].key = calls[d].key /\ calls[c].result = calls[d].result
          /\ Has(urlCache, calls[c].key) /\ Has(virtualFS, calls[c].result)
          /\ ~Active(c) /\ ~Active(d)
    /\ \E l \in Calls : calls[l].op = "load" /\ calls[l].outcome = "loaded"

(***************************************************************************)
(* C25: when the manifest that is used declares a name or a version, the   *)
(* URL fetched for the entry file is built from the manifest's name and    *)
(* version, not from the name and version parsed out of the specifier; the *)
(* parsed values are used only for the fields the manifest does not        *)
(* declare.                                                                *)
(***************************************************************************)
\* the call has read a manifest and has gone on to fetch the entry file
ManifestUsed(c) == PastManifests(c) /\ ~calls[c].warned /\ calls[c].attempts # <<>>

\* the field of the manifest when it declares one, else the parsed value
ManifestOrParsed(declared, fromSpecifier) ==
    IF declared # Undefined /\ declared # Empty THEN declared ELSE fromSpecifier

\* name@version as the manifest in use and the specifier give them
EntryNameVersion(c) ==
    ManifestOrParsed(calls[c].retData.pkg.name, calls[c].parsed.name)
        \o At
        \o ManifestOrParsed(calls[c].retData.pkg.version, calls[c].parsed.version)

\* the start of the path of the URL the call fetches first, as long as
\* name@version is
PackageOfEntryUrl(c) ==
    Take(Drop(pathname(calls[c].attempts[1]), 1), Len(EntryNameVersion(c)))

SubpathOfEntryUrl(c) ==
    Drop(Drop(pathname(calls[c].attempts[1]), 1), Len(EntryNameVersion(c)))

\* "./x" as the subpath "/x"
AsSubpath(target) == ReplacePrefix(target, <<".", "/">>, Slash)

\* what each method gives for the call with manifest candidate cand, and
\* the method the stated order selects
ModernOf(c, cand) == modernImportResolve(cand.pkg, resolveRelativePath(calls[c].parsed.path))
LegacyOf(cand) == getFirstValidValue(legacyImportResolve(cand.pkg))
MethodInOrder(c, cand) ==
    IF Truthy(ModernOf(c, cand)) THEN "modern"
    ELSE IF cand.isSubpathPackageJson /\ Truthy(LegacyOf(cand)) THEN "legacy"
    ELSE "original"

EntryMethodsInOrder ==
    \A c \in Calls :
        ManifestUsed(c)
        => \A k \in ManifestToUse(c) :
              LET cand == calls[c].cands[k]
                  method == MethodInOrder(c, cand)
              IN EndsWith(SubpathOfEntryUrl(c),
                          IF method = "modern" THEN AsSubpath(ModernOf(c, cand))
                          ELSE IF method = "legacy" THEN AsSubpath(LegacyOf(cand))
                          ELSE calls[c].parsed.path)

\* the entry of call c came from `method`, which gave another subpath than
\* the other methods would have
EntryCameFrom(c, method) ==
    /\ ManifestUsed(c)
    /\ \E k \in ManifestToUse(c) :
          LET cand == calls[c].cands[k]
          IN /\ MethodInOrder(c, cand) = method
             /\ method = "modern" => ~EndsWith(SubpathOfEntryUrl(c), calls[c].parsed.path)
             /\ method = "legacy" => ~EndsWith(SubpathOfEntryUrl(c), calls[c].parsed.path)
             /\ method = "original"
                    => /\ ~cand.isSubpathPackageJson
                       /\ Truthy(LegacyOf(cand))
                       /\ ~EndsWith(SubpathOfEntryUrl(c), AsSubpath(LegacyOf(cand)))

\* one build resolved an entry through the exports map, one through the
\* legacy fields of a subpath-local manifest, and one as the original
\* subpath although the package-root manifest in use has a legacy field
EachMethodUsed ==
    /\ \E c \in Calls : EntryCameFrom(c, "modern")
    /\ \E c \in Calls : EntryCameFrom(c, "legacy")
    /\ \E c \in Calls : EntryCameFrom(c, "original")

(***************************************************************************)
(* C27: when neither modern nor legacy resolution produces an entry, the   *)
(* subpath of the URL that is finally fetched equals the original subpath  *)
(* of the specifier, for every manifest that may have been used, including *)
(* the subpath-local one.                                                  *)
(***************************************************************************)
OriginalSubpathKept ==
    \A c \in Calls :
        ManifestUsed(c)
        => \A k \in ManifestToUse(c) :
              MethodInOrder(c, calls[c].cands[k]) = "original"
              => SubpathOfEntryUrl(c) = calls[c].parsed.path

(***************************************************************************)
(* C28: when legacy resolution returns a map, the entry chosen is the      *)
(* value of the first key (in map order) whose value is truthy and whose   *)
(* key neither ends in .cjs nor contains src/; when no key qualifies, it   *)
(* is the value of the first key of the map.                               *)
(***************************************************************************)
\* the call resolved its entry through the legacy fields of manifest
\* candidate cand, whose browser field is an object
LegacyMapUsed(c, cand) ==
    /\ cand.pkg.browserMap # <<>>
    /\ cand.isSubpathPackageJson
    /\ ~Truthy(ModernOf(c, cand))

\* the positions of the map whose key qualifies
Qualifying(obj) ==
    {i \in 1..Len(obj) :
        /\ obj[i][2] \notin {False, Undefined, Empty}
        /\ ~EndsWith(obj[i][1], <<".", "cjs">>)
        /\ ~\E j \in 1..(Len(obj[i][1]) - 1) : obj[i][1][j] = "src" /\ obj[i][1][j + 1] = "/"}

\* the value the claim names
ChosenOfMap(obj) ==
    IF Qualifying(obj) # {}
    THEN obj[CHOOSE i \in Qualifying(obj) : \A j \in Qualifying(obj) : i <= j][2]
    ELSE obj[1][2]

FirstQualifyingKeyChosen ==
    \A c \in Calls :
        ManifestUsed(c)
        => \A k \in ManifestToUse(c) :
              LET cand == calls[c].cands[k]
                  chosen == ChosenOfMap(cand.pkg.browserMap)
              IN LegacyMapUsed(c, cand) /\ chosen # False
                 => SubpathOfEntryUrl(c) = calls[c].parsed.path \o AsSubpath(chosen)

\* the entry of call c is the value at position i of the browser map of
\* the manifest in use; `some` tells whether a key of the map qualifies
MapEntryAt(c, i, some) ==
    /\ ManifestUsed(c)
    /\ \E k \in ManifestToUse(c) :
          LET cand == calls[c].cands[k]
              obj == cand.pkg.browserMap
          IN /\ LegacyMapUsed(c, cand)
             /\ (Qualifying(obj) # {}) = some
             /\ Len(obj) >= i
             /\ SubpathOfEntryUrl(c) = calls[c].parsed.path \o AsSubpath(obj[i][2])

\* one call took the third key of a map whose first value is false and
\* whose second key ends in .cjs; another took the first key of a map none
\* of whose keys qualifies
MapEntriesChosen ==
    /\ \E c \in Calls : MapEntryAt(c, 3, TRUE)
    /\ \E c \in Calls : MapEntryAt(c, 1, FALSE)

(***************************************************************************)
(* C29: in the manifest that resolve returns as context for a bare         *)
(* specifier, every peerDependencies key k carries the version that the    *)
(* parent context declares for k (in its dependencies, devDependencies or  *)
(* peerDependencies) when the parent declares one, and the manifest's own  *)
(* version otherwise; propagation adds no key and removes none.            *)
(***************************************************************************)
\* the call has returned a path and a manifest of its own making
ReturnedManifest(c) ==
    /\ PastManifests(c)
    /\ calls[c].pc = "done" /\ calls[c].outcome = "path"

\* the peer dependencies of the manifest the call started from: those of
\* the manifest in use, or of the parent's when every manifest fetch failed
OwnPeerDependencies(c) ==
    IF ManifestToUse(c) = {} THEN calls[c].pluginData.pkg.peerDependencies
    ELSE calls[c].cands[CHOOSE k \in ManifestToUse(c) : TRUE].pkg.peerDependencies

\* the versions the parent context of the call declares for k
ParentVersions(c, k) ==
    LET oldPkg == calls[c].pluginData.pkg
    IN {Lookup(d, k) : d \in {e \in {oldPkg.dependencies, oldPkg.devDependencies,
                                     oldPkg.peerDependencies} : k \in Keys(e)}}

PeerDependenciesFollowParent ==
    \A c \in Calls :
        ReturnedManifest(c)
        => LET own == OwnPeerDependencies(c)
               ret == calls[c].retData.pkg.peerDependencies
           IN /\ Len(ret) = Len(own)
              /\ \A i \in 1..Len(own) :
                    /\ ret[i][1] = own[i][1]
                    /\ IF ParentVersions(c, own[i][1]) # {}
                       THEN ret[i][2] \in ParentVersions(c, own[i][1])
                       ELSE ret[i][2] = own[i][2]

\* a returned manifest with one peer dependency at the parent's version,
\* which is not the manifest's own, and one the parent does not declare
PeerVersionTakenFromParent ==
    \E c \in Calls :
        /\ ReturnedManifest(c)
        /\ LET own == OwnPeerDependencies(c)
               ret == calls[c].retData.pkg.peerDependencies
           IN /\ \E i \in 1..Len(own) :
                    /\ ParentVersions(c, own[i][1]) # {}
                    /\ ret[i][2] # own[i][2]
              /\ \E i \in 1..Len(own) :
                    /\ ParentVersions(c, own[i][1]) = {}
                    /\ ret[i][2] = own[i][2]

(***************************************************************************)
(* C30: a bare specifier without an explicit version whose package name is *)
(* listed in the ancestor manifest's dependencies, devDependencies or      *)
(* peerDependencies is resolved with the version given there; a bare       *)
(* specifier that carries an explicit version is always resolved with its  *)
(* own version, whatever the ancestor manifest says.                       *)
(***************************************************************************)
\* the specifier of the call as the parser reads it
SpecifierOf(c) == parsePackageName(getCDNUrl(calls[c].path, DEFAULT_CDN_HOST).path)

\* the specifier has "@version" after its package name
ExplicitVersion(c) ==
    LET argPath == getCDNUrl(calls[c].path, DEFAULT_CDN_HOST).path
        n == Len(SpecifierOf(c).name)
    IN Len(argPath) > n + 1 /\ argPath[n + 1] = "@"

\* the call asks for the package-root manifest of `version`
ResolvedWithVersion(c, version) ==
    /\ calls[c].parsed.version = version
    /\ calls[c].cands[Len(calls[c].cands)].href
          = getCDNUrl(SpecifierOf(c).name \o At \o version \o PackageJsonFile,
                      calls[c].origin).url

AncestorVersionUnlessExplicit ==
    \A c \in Calls :
        BareCall(c)
        => IF ExplicitVersion(c) THEN ResolvedWithVersion(c, SpecifierOf(c).version)
           ELSE ParentVersions(c, SpecifierOf(c).name) # {}
                => \E v \in ParentVersions(c, SpecifierOf(c).name) : ResolvedWithVersion(c, v)

----------------------------------------------------------------------------
(***************************************************************************)
(* C31: every virtual path a resolve call has returned, and every virtual  *)
(* path held in the specifier-to-path index, has an entry in the Virtual   *)
(* Content Store, in every state and under any interleaving of resolve     *)
(* calls; a load of a path a resolve has returned yields defined content.  *)
(***************************************************************************)
\* the resolve calls that have returned a virtual path
ReturnedPath(c) == calls[c].op = "resolve" /\ calls[c].outcome = "path"

IndexedAndReturnedPathsStored ==
    /\ \A k \in DOMAIN urlCache : Has(virtualFS, urlCache[k].path)
    /\ \A c \in Calls :
          ReturnedPath(c)
          => /\ Has(virtualFS, calls[c].result)
             /\ onLoad(World, c, LoadArg(calls[c].result, calls[c].retData)).loaded

\* overlapping resolves have returned paths, one of them from the index,
\* and the index holds a manifest and a content entry
OverlappingResolvesReturnedPaths ==
    /\ build.active > 1
    /\ \E c, d \in Calls :
          /\ c # d
          /\ ReturnedPath(c) /\ ~calls[c].indexed
          /\ ReturnedPath(d) /\ calls[d].indexed
    /\ \E k \in DOMAIN urlCache : urlCache[k].path = calls[1].result
    /\ \E k \in DOMAIN urlCache : EndsWith(urlCache[k].path, PackageJsonFile)

----------------------------------------------------------------------------
(***************************************************************************)
(* C32: at any time all resolve calls of the same bare specifier that have *)
(* returned have returned the same virtual path, also when the calls       *)
(* overlap in time and carry different ancestor manifests.                 *)
(***************************************************************************)
OnePathPerBareSpecifier ==
    \A c, d \in Calls :
        /\ ReturnedPath(c) /\ ReturnedPath(d)
        /\ isBareImport(calls[c].path)
        /\ calls[c].path = calls[d].path
        => calls[c].result = calls[d].result

----------------------------------------------------------------------------
(***************************************************************************)
(* C33: once the Fetch Cache holds an ok response for a URL it holds an ok *)
(* response for that URL in every later state: no step, a background       *)
(* refresh included, replaces an ok entry by a non-ok response.            *)
(***************************************************************************)
OkEntryStaysOk ==
    [][\A u \in DOMAIN CACHE :
          CACHE[u].ok => (u \in DOMAIN CACHE' /\ CACHE'[u].ok)]_vars

----------------------------------------------------------------------------
(***************************************************************************)
(* C34: if the fetch of an extension variant succeeds with an ok response, *)
(* determineExtension returns that variant's URL and content and does not  *)
(* throw, also when the final URL of the successful fetch has no file      *)
(* extension.                                                              *)
(***************************************************************************)
FetchedVariantReturned ==
    \A c \in Calls :
        calls[c].fetched.ok
        => /\ calls[c].outcome # "throw"
           /\ calls[c].probed.ok
           /\ calls[c].probed.url = calls[c].fetched.url
           /\ calls[c].probed.content = calls[c].fetched.content

----------------------------------------------------------------------------
(***************************************************************************)
(* C35: a resolve answered from the specifier-to-path index returns the    *)
(* context of the resolve that created the index entry: the same manifest, *)
(* with its patched peerDependencies, and the same sideEffects value.      *)
(***************************************************************************)
\* resolve d fetched the path that the index gave to resolve c
CreatedEntryOf(c, d) ==
    /\ ReturnedPath(d) /\ ~calls[d].indexed
    /\ calls[d].key = calls[c].key
    /\ calls[d].result = calls[c].result

IndexHitReturnsCreatorsContext ==
    \A c \in Calls :
        (ReturnedPath(c) /\ calls[c].indexed)
        => \E d \in Calls :
              /\ CreatedEntryOf(c, d)
              /\ calls[c].retData = calls[d].retData
              /\ calls[c].sideEffects = calls[d].sideEffects

\* the part of the context the index does keep: the sideEffects value
IndexHitReturnsCreatorsSideEffects ==
    \A c \in Calls :
        (ReturnedPath(c) /\ calls[c].indexed)
        => \E d \in Calls :
              /\ CreatedEntryOf(c, d)
              /\ calls[c].retData.sideEffects = calls[d].retData.sideEffects
              /\ calls[c].sideEffects = calls[d].sideEffects

----------------------------------------------------------------------------
(***************************************************************************)
(* C36: once the Virtual Content Store holds content for a virtual path,   *)
(* no later step replaces it by different content; two resolved CDN URLs   *)
(* that differ in origin or in version and serve different bodies never    *)
(* write the same virtual path.                                            *)
(***************************************************************************)
StoredContentNeverReplaced ==
    [][\A p \in DOMAIN virtualFS :
          p \in DOMAIN virtualFS' /\ virtualFS'[p] = virtualFS[p]]_vars

----------------------------------------------------------------------------
(***************************************************************************)
(* C37: a resolve call that fails adds no entry for its specifier to the   *)
(* specifier-to-path index and no content entry to the Virtual Content     *)
(* Store, so that a later resolve of the same specifier retries the        *)
(* resolution instead of returning a path without content.                 *)
(***************************************************************************)
\* resolve c has failed
FailedResolve(c) == calls[c].op = "resolve" /\ calls[c].outcome = "throw"

\* resolve d has fetched the content it returned the path of
FetchedPath(d) == ReturnedPath(d) /\ ~calls[d].indexed

\* as stated: while every resolve so far has failed, the store is empty
FailedResolvesLeaveStoreEmpty ==
    (\A c \in Calls : calls[c].op = "resolve" => FailedResolve(c))
    => virtualFS = EmptyMap

\* every specifier of the index and every stored file other than a manifest
\* was entered by a resolve that succeeded; a resolve of a specifier of
\* which only failed resolves have ended is not answered from the index
OnlySuccessfulResolvesEnterSpecifierAndContent ==
    /\ \A k \in DOMAIN urlCache :
          ~HasScheme(k)
          => \E d \in Calls : FetchedPath(d) /\ calls[d].key = k
                              /\ calls[d].result = urlCache[k].path
    /\ \A p \in DOMAIN virtualFS :
          ~EndsWith(p, PackageJsonFile)
          => \E d \in Calls : FetchedPath(d) /\ calls[d].result = p
    /\ \A c \in Calls :
          (ReturnedPath(c) /\ calls[c].indexed)
          => \E d \in Calls : FetchedPath(d) /\ calls[d].key = calls[c].key

\* a resolve failed in probing after its manifest had been stored, and a
\* later resolve of the same specifier went through the resolution again
FailedResolveRetried ==
    \E c, d \in Calls :
        /\ c < d
        /\ FailedResolve(c)
        /\ Fulfilled(calls[c].cands) # <<>>
        /\ AllVariantsFailed(c)
        /\ calls[d].path = calls[c].path
        /\ FetchedPath(d)
        /\ \E k \in DOMAIN urlCache : HasScheme(k)

----------------------------------------------------------------------------
(***************************************************************************)
(* C38: for a relative or absolute specifier whose importer is not under   *)
(* /node_modules and whose joined path is not in the specifier-to-path     *)
(* index, resolve returns no result, issues no network request and changes *)
(* no cache, index or store.                                               *)
(***************************************************************************)
\* call c starts in this step as a resolve of a local file
LocalResolveStarts(c) ==
    /\ calls[c].pc = "idle"
    /\ calls'[c].op = "resolve"
    /\ ~isBareImport(calls'[c].path)
    /\ ~isNodeModule(calls'[c].importer)
    /\ ~Has(urlCache, join(calls'[c].resolveDir,
                           getCDNUrl(calls'[c].path, DEFAULT_CDN_HOST).path))

LocalSpecifierLeftToBundler ==
    [][\A c \in Calls :
          LocalResolveStarts(c)
          => /\ calls'[c].pc = "done"
             /\ calls'[c].outcome = "none"
             /\ calls'[c].result = Empty
             /\ net' = net
             /\ CACHE' = CACHE
             /\ urlCache' = urlCache
             /\ virtualFS' = virtualFS]_vars

\* a relative and an absolute local specifier were left to the bundler
\* while the index, the store and the Fetch Cache held entries
LocalSpecifiersReturnedNothing ==
    /\ \E c, d \in Calls :
          /\ calls[c].op = "resolve" /\ calls[c].outcome = "none"
          /\ isRelative(calls[c].path) /\ ~isNodeModule(calls[c].importer)
          /\ calls[d].op = "resolve" /\ calls[d].outcome = "none"
          /\ isAbsolute(calls[d].path) /\ ~isNodeModule(calls[d].importer)
    /\ CACHE # EmptyMap
    /\ net # {}

----------------------------------------------------------------------------
(***************************************************************************)
(* C39: the URL fetched for a bare specifier has the form                  *)
(* origin + name + "@" + version + subpath, where subpath is empty or      *)
(* begins with "/": an entry path that exports or legacy resolution gave,  *)
(* with or without a leading "./", is never joined to the version string   *)
(* without a "/".                                                          *)
(***************************************************************************)
EntryUrlHasSlashAfterVersion ==
    \A c \in Calls :
        ManifestUsed(c)
        => /\ calls[c].attempts[1]
                 = getCDNUrl(EntryNameVersion(c) \o SubpathOfEntryUrl(c), calls[c].origin).url
           /\ SubpathOfEntryUrl(c) = Empty \/ Head(SubpathOfEntryUrl(c)) = "/"

====
